---------------------------- MODULE Spec2Model ----------------------------
(***************************************************************************)
(* The interactive session engine of sgpt-rs: the App state (tui/app.rs),  *)
(* the event loop and its handlers (tui/handler.rs) and the background     *)
(* producers that feed the loop's channel.                                 *)
(*                                                                         *)
(* A Rust String is a UTF-8 byte buffer.  Here a string is a sequence of   *)
(* characters, every character has its UTF-8 width, and every std::String  *)
(* operation that takes a byte offset is given that offset and panics as   *)
(* the standard library does when the offset is not a character boundary.  *)
(***************************************************************************)
EXTENDS Integers, Sequences, FiniteSets, TLC

VARIABLES
  app,    \* the App the event loop owns
  chan,   \* the unbounded mpsc channel of TuiEvents, oldest first
  tasks,  \* the streaming tasks handle_user_input spawned, in spawn order
  term,   \* the environment: keys pressed, initial prompt, stream events sent
  exit,   \* "running", or how run_app ended
  store,  \* the ChatSession file of app.chat_id
  last,   \* history variable: the event the loop handled in the last step
  hist    \* history variable: what was sent, completed and dequeued so far

vars == <<app, chan, tasks, term, exit, store, last, hist>>

(***************************************************************************)
(* Characters                                                              *)
(***************************************************************************)
NL == "\n"
\* U+00E9, two bytes in UTF-8, alphabetic
E_ACUTE == "<U+00E9>"
\* U+5F90, three bytes in UTF-8, alphabetic
CJK_XU == "<U+5F90>"
\* The four characters that open both paste markers in handler.rs:991/1006
\* (bytes EF A3 BF, C3 BC, C3 AC, C3 A3).
PUA_F8FF == "<U+F8FF>"
U_UML == "<U+00FC>"
I_GRAVE == "<U+00EC>"
A_TILDE == "<U+00E3>"

Utf8Len(c) ==
  IF c \in {CJK_XU, PUA_F8FF} THEN 3
  ELSE IF c \in {E_ACUTE, U_UML, I_GRAVE, A_TILDE} THEN 2
  ELSE 1

is_whitespace(c) == c \in {" ", NL, "\t"}

IsPunct(c) == c \in {".", ",", "[", "]", "(", ")", ":", "+", "-", PUA_F8FF}

is_word_char(c) == (~is_whitespace(c) /\ ~IsPunct(c)) \/ c = "_"

(***************************************************************************)
(* std::String / str                                                       *)
(***************************************************************************)
\* str::len: the bytes of s, every character counted with its UTF-8 length
ByteLen(s) ==
  Len(s) + Cardinality({i \in DOMAIN s : Utf8Len(s[i]) >= 2})
         + Cardinality({i \in DOMAIN s : Utf8Len(s[i]) >= 3})

Take(s, n) == SubSeq(s, 1, IF n < Len(s) THEN n ELSE Len(s))
Skip(s, n) == SubSeq(s, (IF n < Len(s) THEN n ELSE Len(s)) + 1, Len(s))

\* The number of characters before byte offset b, or -1 when b is not a
\* character boundary of s (str::is_char_boundary).
CharsBefore(s, b) ==
  LET ks == {k \in 0..Len(s) : ByteLen(Take(s, k)) = b}
  IN  IF ks = {} THEN -1 ELSE CHOOSE k \in ks : TRUE

char_to_byte_index_bytes(s, n) == IF n < Len(s) THEN n ELSE Len(s)

char_to_byte_index(s, n) ==
  IF n < Len(s) THEN ByteLen(Take(s, n)) ELSE ByteLen(s)

\* String::insert / insert_str: panics unless b is a character boundary.
StringInsertStr(s, b, t) ==
  LET k == CharsBefore(s, b)
  IN  IF k = -1 THEN [ok |-> FALSE, s |-> s]
      ELSE [ok |-> TRUE, s |-> Take(s, k) \o t \o Skip(s, k)]

StringInsert(s, b, c) == StringInsertStr(s, b, <<c>>)

\* String::remove: panics when no character starts at byte b.
StringRemove(s, b) ==
  LET k == CharsBefore(s, b)
  IN  IF k = -1 \/ k >= Len(s) THEN [ok |-> FALSE, s |-> s]
      ELSE [ok |-> TRUE, s |-> Take(s, k) \o Skip(s, k + 1)]

\* String::replace_range(from..to, ""): panics on an inverted range or an
\* end that is not a character boundary.
StringRemoveRange(s, from, to) ==
  LET i == CharsBefore(s, from)
      j == CharsBefore(s, to)
  IN  IF i = -1 \/ j = -1 \/ i > j THEN [ok |-> FALSE, s |-> s]
      ELSE [ok |-> TRUE, s |-> Take(s, i) \o Skip(s, j)]

IsPrefixAt(h, n, k) ==
  /\ k + Len(n) <= Len(h)
  /\ SubSeq(h, k + 1, k + Len(n)) = n

\* str::find: the byte offset of the first occurrence, -1 for None.
StrFind(h, n) ==
  LET ks == {k \in 0..Len(h) : IsPrefixAt(h, n, k)}
  IN  IF ks = {} THEN -1
      ELSE ByteLen(Take(h, CHOOSE k \in ks : \A j \in ks : k <= j))

StrContains(h, n) == StrFind(h, n) # -1

RECURSIVE TrimStart(_)
TrimStart(s) ==
  IF s # <<>> /\ is_whitespace(Head(s)) THEN TrimStart(Tail(s)) ELSE s

RECURSIVE TrimEnd(_)
TrimEnd(s) ==
  IF s # <<>> /\ is_whitespace(s[Len(s)])
  THEN TrimEnd(SubSeq(s, 1, Len(s) - 1)) ELSE s

Trim(s) == TrimEnd(TrimStart(s))

\* str::split('\n'): always at least one piece.
RECURSIVE SplitNL(_)
SplitNL(s) ==
  LET ks == {k \in 1..Len(s) : s[k] = NL}
  IN  IF ks = {} THEN <<s>>
      ELSE LET k == CHOOSE x \in ks : \A y \in ks : x <= y
           IN  <<SubSeq(s, 1, k - 1)>> \o SplitNL(SubSeq(s, k + 1, Len(s)))

\* str::lines(): as split('\n') without a final empty piece.
Lines(s) ==
  LET p == SplitNL(s)
  IN  IF p[Len(p)] = <<>> THEN SubSeq(p, 1, Len(p) - 1) ELSE p

\* [String]::join("\n")
RECURSIVE JoinNL(_)
JoinNL(ls) ==
  IF ls = <<>> THEN <<>>
  ELSE IF Len(ls) = 1 THEN ls[1]
  ELSE ls[1] \o <<NL>> \o JoinNL(Tail(ls))

Digit(d) == <<"0", "1", "2", "3", "4", "5", "6", "7", "8", "9">>[d + 1]

\* format!("{}", n) for a usize
RECURSIVE FormatUsize(_)
FormatUsize(n) ==
  IF n < 10 THEN <<Digit(n)>> ELSE FormatUsize(n \div 10) \o <<Digit(n % 10)>>

(***************************************************************************)
(* App (tui/app.rs)                                                        *)
(***************************************************************************)
NoneIdx == -1
NoTime == -1

PopupNone == [kind |-> "None"]

max_display_messages == 100

Msg(role, content) == [role |-> role, content |-> content]

status_text(interpreter, is_shell_mode, allow_interaction) ==
  IF interpreter = "Python" THEN "Python REPL: e=execute, r=repeat | ctrl+h help"
  ELSE IF interpreter = "R" THEN "R REPL: e=execute, r=repeat | ctrl+h help"
  ELSE IF is_shell_mode
       THEN IF allow_interaction
            THEN "Shell REPL: e=execute, r=repeat, d=describe | ctrl+h help"
            ELSE "Shell Mode | ctrl+h help"
  ELSE "Chat Mode | ctrl+h help"

App_new(chat_id, messages, is_shell_mode, allow_interaction, model, interpreter) ==
  [ chat_id |-> chat_id,
    messages |-> messages,
    input |-> <<>>,
    input_cursor |-> 0,
    input_mode |-> "Normal",
    multiline_buffer |-> <<>>,
    input_history |-> <<>>,
    history_index |-> NoneIdx,
    is_shell_mode |-> is_shell_mode,
    interpreter |-> interpreter,
    allow_interaction |-> allow_interaction,
    last_command |-> <<>>,
    current_response |-> <<>>,
    is_receiving_response |-> FALSE,
    message_queue |-> <<>>,
    status_message |-> status_text(interpreter, is_shell_mode, allow_interaction),
    model |-> model,
    show_help |-> FALSE,
    chat_scroll_offset |-> 0,
    popup_state |-> PopupNone,
    pending_pastes |-> <<>>,
    last_ctrl_c_time |-> NoTime,
    panicked |-> FALSE ]

\* A panic inside a call on the App: the loop's thread unwinds.
Panic(a) == [a EXCEPT !.panicked = TRUE]

scroll_to_bottom(a) == [a EXCEPT !.chat_scroll_offset = 0]

add_message(a, message) ==
  LET pushed == Append(a.messages, message)
      kept == IF Len(pushed) > max_display_messages
              THEN SubSeq(pushed, Len(pushed) - max_display_messages + 1, Len(pushed))
              ELSE pushed
  IN  scroll_to_bottom([a EXCEPT !.messages = kept])

start_response(a) ==
  [a EXCEPT !.current_response = <<>>, !.is_receiving_response = TRUE]

append_response(a, content) ==
  [a EXCEPT !.current_response = @ \o content]

update_status_message(a) ==
  [a EXCEPT !.status_message =
     status_text(a.interpreter, a.is_shell_mode, a.allow_interaction)]

finish_response_keep_flag(a) ==
  LET b == IF a.current_response # <<>>
           THEN LET m == add_message(a, Msg("Assistant", a.current_response))
                IN  IF a.is_shell_mode \/ a.interpreter # "None"
                    THEN [m EXCEPT !.last_command = Trim(a.current_response)]
                    ELSE m
           ELSE a
  IN  update_status_message([b EXCEPT !.current_response = <<>>])

finish_response(a) ==
  LET b == IF a.current_response # <<>>
           THEN LET m == add_message(a, Msg("Assistant", a.current_response))
                IN  IF a.is_shell_mode \/ a.interpreter # "None"
                    THEN [m EXCEPT !.last_command = Trim(a.current_response)]
                    ELSE m
           ELSE a
  IN  update_status_message(
        [b EXCEPT !.current_response = <<>>, !.is_receiving_response = FALSE])

clear_input(a) ==
  [a EXCEPT !.input = <<>>, !.input_cursor = 0, !.multiline_buffer = <<>>,
            !.input_mode = "Normal", !.history_index = NoneIdx]

get_input_text(a) ==
  IF a.input_mode = "MultiLine"
  THEN JoinNL(Append(a.multiline_buffer, a.input))
  ELSE a.input

toggle_help(a) == [a EXCEPT !.show_help = ~@]

\* a cleanup pass that stops after the first entry it removes
cleanup_first_stale_only(a) ==
  LET full == get_input_text(a)
      stale == {i \in DOMAIN a.pending_pastes :
                  ~StrContains(full, a.pending_pastes[i].placeholder)}
  IN  IF stale = {} THEN a
      ELSE LET k == CHOOSE i \in stale : \A j \in stale : i <= j
           IN  [a EXCEPT !.pending_pastes =
                  SubSeq(@, 1, k - 1) \o SubSeq(@, k + 1, Len(@))]

\* Remove any pending paste entries whose placeholders are no longer present.
cleanup_pending_pastes(a) ==
  IF a.pending_pastes = <<>> THEN a
  ELSE LET full == get_input_text(a)
           present(e) == StrContains(full, e.placeholder)
       IN  [a EXCEPT !.pending_pastes = SelectSeq(@, present)]

find_substring_char_index(haystack, needle) ==
  LET byte_idx == StrFind(haystack, needle)
  IN  IF byte_idx = -1 THEN -1 ELSE CharsBefore(haystack, byte_idx)

\* (left, right) of s at a character index; the slices s[..b] and s[b..] panic
\* when b is not a character boundary.
split_by_char_index(s, char_idx) ==
  IF char_idx = 0 THEN [ok |-> TRUE, left |-> <<>>, right |-> s]
  ELSE LET k == CharsBefore(s, char_to_byte_index(s, char_idx))
       IN  IF k = -1 THEN [ok |-> FALSE, left |-> <<>>, right |-> <<>>]
           ELSE [ok |-> TRUE, left |-> Take(s, k), right |-> Skip(s, k)]

\* s with the n characters that start at character index start cut out, as
\* the two split_by_char_index calls of the placeholder routines compute it.
CutAt(s, start, n) ==
  LET one == split_by_char_index(s, start)
      two == split_by_char_index(one.right, n)
  IN  [ok |-> one.ok /\ two.ok, before |-> one.left, tail |-> two.right]

(***************************************************************************)
(* Input editing helpers (tui/app.rs:238-414)                              *)
(***************************************************************************)
move_cursor_left(a) ==
  IF a.input_cursor > 0 THEN [a EXCEPT !.input_cursor = @ - 1] ELSE a

move_cursor_right(a) ==
  IF a.input_cursor < Len(a.input) THEN [a EXCEPT !.input_cursor = @ + 1] ELSE a

move_cursor_home(a) == [a EXCEPT !.input_cursor = 0]

move_cursor_end(a) == [a EXCEPT !.input_cursor = Len(a.input)]

Min(x, y) == IF x < y THEN x ELSE y

\* chars[i] of the Rust code, i counted from 0
At(s, i) == s[i + 1]

\* while i > 0 && chars[i].is_whitespace() { i -= 1; }
SkipSpaceLeft(s, i) ==
  CHOOSE j \in 0..i :
    /\ \A k \in (j + 1)..i : is_whitespace(At(s, k))
    /\ j = 0 \/ ~is_whitespace(At(s, j))

\* while i > 0 && !chars[i-1].is_whitespace() && is_word_char(chars[i-1]) == cls
RunLeft(s, i, cls) ==
  CHOOSE j \in 0..i :
    /\ \A k \in j..(i - 1) : ~is_whitespace(At(s, k)) /\ is_word_char(At(s, k)) = cls
    /\ j = 0 \/ is_whitespace(At(s, j - 1)) \/ is_word_char(At(s, j - 1)) # cls

prev_word_boundary(s, cursor) ==
  IF cursor = 0 THEN 0
  ELSE LET i0 == Min(cursor, Len(s))
       IN  IF i0 = 0 THEN 0
           ELSE LET i1 == SkipSpaceLeft(s, i0 - 1)
                IN  IF i1 = 0 THEN 0
                    ELSE RunLeft(s, i1, is_word_char(At(s, i1)))

\* while i < n && chars[i].is_whitespace() { i += 1; }
SkipSpaceRight(s, i) ==
  CHOOSE j \in i..Len(s) :
    /\ \A k \in i..(j - 1) : is_whitespace(At(s, k))
    /\ j = Len(s) \/ ~is_whitespace(At(s, j))

\* while i < n && !chars[i].is_whitespace() && is_word_char(chars[i]) == cls
RunRight(s, i, cls) ==
  CHOOSE j \in i..Len(s) :
    /\ \A k \in i..(j - 1) : ~is_whitespace(At(s, k)) /\ is_word_char(At(s, k)) = cls
    /\ j = Len(s) \/ is_whitespace(At(s, j)) \/ is_word_char(At(s, j)) # cls

next_word_boundary(s, cursor) ==
  LET n == Len(s)
      i0 == Min(cursor, n)
  IN  IF i0 >= n THEN n
      ELSE LET i1 == SkipSpaceRight(s, i0)
           IN  IF i1 >= n THEN n
               ELSE RunRight(s, i1, is_word_char(At(s, i1)))

move_cursor_word_left(a) ==
  [a EXCEPT !.input_cursor = prev_word_boundary(a.input, a.input_cursor)]

move_cursor_word_right(a) ==
  [a EXCEPT !.input_cursor = next_word_boundary(a.input, a.input_cursor)]

insert_char(a, c) ==
  LET total_chars == Len(a.input)
  IN  IF a.input_cursor >= total_chars
      THEN cleanup_pending_pastes(
             [a EXCEPT !.input = Append(@, c), !.input_cursor = total_chars + 1])
      ELSE LET r == StringInsert(a.input,
                                 char_to_byte_index(a.input, a.input_cursor), c)
           IN  IF ~r.ok THEN Panic(a)
               ELSE cleanup_pending_pastes(
                      [a EXCEPT !.input = r.s, !.input_cursor = @ + 1])

\* Attempt to remove a whole placeholder at the cursor boundary.
try_remove_placeholder_at_cursor(a, is_backspace) ==
  LET line == a.input
      boundary == a.input_cursor
      pp == a.pending_pastes
      start(i) == find_substring_char_index(line, pp[i].placeholder)
      hit(i) == /\ start(i) # -1
                /\ IF is_backspace
                   THEN boundary = start(i) + Len(pp[i].placeholder)
                   ELSE boundary = start(i)
      hits == {i \in DOMAIN pp : hit(i)}
  IN  IF line = <<>> \/ pp = <<>> \/ hits = {}
      THEN [removed |-> FALSE, app |-> a]
      ELSE LET idx == CHOOSE i \in hits : \A j \in hits : i <= j
               cut == CutAt(line, start(idx), Len(pp[idx].placeholder))
           IN  IF ~cut.ok THEN [removed |-> TRUE, app |-> Panic(a)]
               ELSE [removed |-> TRUE,
                     app |-> [a EXCEPT
                       !.input = cut.before \o cut.tail,
                       !.input_cursor = start(idx),
                       !.pending_pastes =
                          SubSeq(pp, 1, idx - 1) \o SubSeq(pp, idx + 1, Len(pp))]]

\* a backspace that merges the lines but never leaves MultiLine mode
backspace_after_stay_multiline(a, t) ==
  IF t.removed
  THEN (IF t.app.panicked THEN t.app ELSE cleanup_pending_pastes(t.app))
  ELSE IF a.input_cursor > 0
  THEN LET del_char_pos == a.input_cursor - 1
           r == StringRemove(a.input, char_to_byte_index(a.input, del_char_pos))
       IN  IF ~r.ok THEN Panic(a)
           ELSE cleanup_pending_pastes(
                  [a EXCEPT !.input = r.s, !.input_cursor = @ - 1])
  ELSE IF a.input_mode = "MultiLine" /\ a.multiline_buffer # <<>>
  THEN LET n == Len(a.multiline_buffer)
           previous_line == a.multiline_buffer[n]
           popped == SubSeq(a.multiline_buffer, 1, n - 1)
       IN  cleanup_pending_pastes(
             [a EXCEPT !.multiline_buffer = popped,
                       !.input = previous_line \o a.input,
                       !.input_cursor = Len(previous_line)])
  ELSE cleanup_pending_pastes(a)

\* backspace once try_remove_placeholder_at_cursor(true) has returned t
backspace_after(a, t) ==
  IF t.removed
  THEN (IF t.app.panicked THEN t.app ELSE cleanup_pending_pastes(t.app))
  ELSE IF a.input_cursor > 0
  THEN LET del_char_pos == a.input_cursor - 1
           r == StringRemove(a.input, char_to_byte_index(a.input, del_char_pos))
       IN  IF ~r.ok THEN Panic(a)
           ELSE cleanup_pending_pastes(
                  [a EXCEPT !.input = r.s, !.input_cursor = @ - 1])
  ELSE IF a.input_mode = "MultiLine" /\ a.multiline_buffer # <<>>
  THEN LET n == Len(a.multiline_buffer)
           previous_line == a.multiline_buffer[n]
           popped == SubSeq(a.multiline_buffer, 1, n - 1)
       IN  cleanup_pending_pastes(
             [a EXCEPT !.multiline_buffer = popped,
                       !.input = previous_line \o a.input,
                       !.input_cursor = Len(previous_line),
                       !.input_mode = IF popped = <<>> THEN "Normal" ELSE @])
  ELSE cleanup_pending_pastes(a)

backspace(a) == backspace_after(a, try_remove_placeholder_at_cursor(a, TRUE))

\* delete once try_remove_placeholder_at_cursor(false) has returned t
delete_after(a, t) ==
  IF t.removed
  THEN (IF t.app.panicked THEN t.app ELSE cleanup_pending_pastes(t.app))
  ELSE IF a.input_cursor < Len(a.input)
  THEN LET r == StringRemove(a.input,
                             char_to_byte_index(a.input, a.input_cursor))
       IN  IF ~r.ok THEN Panic(a)
           ELSE cleanup_pending_pastes([a EXCEPT !.input = r.s])
  ELSE cleanup_pending_pastes(a)

delete(a) == delete_after(a, try_remove_placeholder_at_cursor(a, FALSE))

delete_prev_word(a) ==
  IF a.input_cursor = 0 THEN a
  ELSE LET start == prev_word_boundary(a.input, a.input_cursor)
       IN  IF start < a.input_cursor
           THEN LET r == StringRemoveRange(a.input,
                           char_to_byte_index(a.input, start),
                           char_to_byte_index(a.input, a.input_cursor))
                IN  IF ~r.ok THEN Panic(a)
                    ELSE cleanup_pending_pastes(
                           [a EXCEPT !.input = r.s, !.input_cursor = start])
           ELSE a

delete_next_word(a) ==
  LET end == next_word_boundary(a.input, a.input_cursor)
      cur_b == char_to_byte_index(a.input, a.input_cursor)
      end_b == char_to_byte_index(a.input, end)
  IN  IF end_b > cur_b
      THEN LET r == StringRemoveRange(a.input, cur_b, end_b)
           IN  IF ~r.ok THEN Panic(a)
               ELSE cleanup_pending_pastes([a EXCEPT !.input = r.s])
      ELSE a

kill_to_line_start(a) ==
  IF a.input_cursor = 0 THEN a
  ELSE LET r == StringRemoveRange(a.input, 0,
                                  char_to_byte_index(a.input, a.input_cursor))
       IN  IF ~r.ok THEN Panic(a)
           ELSE cleanup_pending_pastes(
                  [a EXCEPT !.input = r.s, !.input_cursor = 0])

kill_to_line_end(a) ==
  LET r == StringRemoveRange(a.input,
                             char_to_byte_index(a.input, a.input_cursor),
                             ByteLen(a.input))
  IN  IF ~r.ok THEN Panic(a)
      ELSE cleanup_pending_pastes([a EXCEPT !.input = r.s])

push_history(a, line) ==
  LET h == a.input_history
      pushed == IF Trim(line) # <<>> /\ (h = <<>> \/ h[Len(h)] # line)
                THEN Append(h, line) ELSE h
  IN  [a EXCEPT !.input_history = pushed, !.history_index = NoneIdx]

history_prev(a) ==
  IF a.input_history = <<>> THEN a
  ELSE LET i == IF a.history_index = NoneIdx THEN Len(a.input_history) - 1
                ELSE IF a.history_index = 0 THEN 0
                ELSE a.history_index - 1
       IN  move_cursor_end(
             [a EXCEPT !.history_index = i, !.input = a.input_history[i + 1]])

\* history_next that leaves the line in place when it goes past the newest
\* entry
history_next_keep_line(a) ==
  IF a.input_history = <<>> \/ a.history_index = NoneIdx THEN a
  ELSE IF a.history_index + 1 < Len(a.input_history)
  THEN LET ni == a.history_index + 1
       IN move_cursor_end([a EXCEPT !.history_index = ni,
                                    !.input = a.input_history[ni + 1]])
  ELSE [a EXCEPT !.history_index = NoneIdx]

history_next(a) ==
  IF a.input_history = <<>> \/ a.history_index = NoneIdx THEN a
  ELSE IF a.history_index + 1 < Len(a.input_history)
  THEN LET ni == a.history_index + 1
       IN  move_cursor_end(
             [a EXCEPT !.history_index = ni, !.input = a.input_history[ni + 1]])
  ELSE [a EXCEPT !.history_index = NoneIdx, !.input = <<>>, !.input_cursor = 0]

(***************************************************************************)
(* Popups, queue, Ctrl+C, placeholders (tui/app.rs:416-700)                *)
(***************************************************************************)
show_execution_result(a, command, output) ==
  [a EXCEPT !.popup_state =
     [kind |-> "ExecutionResult", command |-> command, output |-> output]]

show_description(a, command, description) ==
  [a EXCEPT !.popup_state =
     [kind |-> "Description", command |-> command, description |-> description]]

start_streaming_description(a, command) ==
  [a EXCEPT !.popup_state =
     [kind |-> "StreamingDescription", command |-> command,
      current_description |-> <<>>, is_loading |-> TRUE]]

\* an append_description_content that keeps the last delta only
append_description_content_last(a, content) ==
  IF a.popup_state.kind = "StreamingDescription"
  THEN [a EXCEPT !.popup_state.current_description = content,
                 !.popup_state.is_loading = FALSE]
  ELSE a

append_description_content(a, content) ==
  IF a.popup_state.kind = "StreamingDescription"
  THEN [a EXCEPT !.popup_state.current_description = @ \o content,
                 !.popup_state.is_loading = FALSE]
  ELSE a

finish_streaming_description(a) ==
  IF a.popup_state.kind = "StreamingDescription"
  THEN show_description(a, a.popup_state.command,
                        a.popup_state.current_description)
  ELSE a

hide_popup(a) == [a EXCEPT !.popup_state = PopupNone]

\* an is_popup_shown that does not count the streaming description
is_popup_shown_static(a) ==
  a.popup_state.kind \in {"ExecutionResult", "Description"}

is_popup_shown(a) == a.popup_state # PopupNone

\* a try_queue_message that never queues
try_queue_message_never(a, message) == [queued |-> FALSE, app |-> a]

try_queue_message(a, message) ==
  IF a.is_receiving_response
  THEN [queued |-> TRUE,
        app |-> update_status_message(
                  [a EXCEPT !.message_queue = Append(@, message)])]
  ELSE [queued |-> FALSE, app |-> a]

dequeue_message(a) ==
  IF a.message_queue = <<>>
  THEN [some |-> FALSE, msg |-> <<>>, app |-> update_status_message(a)]
  ELSE [some |-> TRUE, msg |-> Head(a.message_queue),
        app |-> update_status_message([a EXCEPT !.message_queue = Tail(@)])]

DOUBLE_CTRL_C_TIMEOUT == 500

\* a handle_ctrl_c whose window excludes the timeout itself
handle_ctrl_c_strict(a) ==
  IF a.last_ctrl_c_time # NoTime /\ a.last_ctrl_c_time < DOUBLE_CTRL_C_TIMEOUT
  THEN [quit |-> TRUE, app |-> [a EXCEPT !.last_ctrl_c_time = NoTime]]
  ELSE [quit |-> FALSE,
        app |-> [a EXCEPT !.input = <<>>, !.input_cursor = 0,
                          !.multiline_buffer = <<>>, !.input_mode = "Normal",
                          !.history_index = NoneIdx, !.last_ctrl_c_time = 0]]

\* a handle_ctrl_c that clears the line and keeps the cursor
handle_ctrl_c_keep_cursor(a) ==
  IF a.last_ctrl_c_time # NoTime /\ a.last_ctrl_c_time <= DOUBLE_CTRL_C_TIMEOUT
  THEN [quit |-> TRUE, app |-> [a EXCEPT !.last_ctrl_c_time = NoTime]]
  ELSE [quit |-> FALSE,
        app |-> [a EXCEPT !.input = <<>>,
                          !.multiline_buffer = <<>>, !.input_mode = "Normal",
                          !.history_index = NoneIdx, !.last_ctrl_c_time = 0]]

\* last_ctrl_c_time holds the time elapsed since the recorded Instant (what
\* now.duration_since(last_time) returns), NoTime for None.
handle_ctrl_c(a) ==
  IF a.last_ctrl_c_time # NoTime /\ a.last_ctrl_c_time <= DOUBLE_CTRL_C_TIMEOUT
  THEN [quit |-> TRUE, app |-> [a EXCEPT !.last_ctrl_c_time = NoTime]]
  ELSE [quit |-> FALSE,
        app |-> [a EXCEPT !.input = <<>>, !.input_cursor = 0,
                          !.multiline_buffer = <<>>, !.input_mode = "Normal",
                          !.history_index = NoneIdx, !.last_ctrl_c_time = 0]]

register_pending_paste(a, placeholder, actual) ==
  [a EXCEPT !.pending_pastes =
     Append(@, [placeholder |-> placeholder, actual |-> actual])]

\* The loop of expand_placeholders_for_submit: each mapping, in order,
\* replaces the first occurrence of its placeholder in the text so far.
RECURSIVE ExpandEach(_, _)
ExpandEach(text, pp) ==
  IF pp = <<>> THEN [ok |-> TRUE, text |-> text]
  ELSE LET e == Head(pp)
           idx_chars == find_substring_char_index(text, e.placeholder)
       IN  IF idx_chars = -1 THEN ExpandEach(text, Tail(pp))
           ELSE LET cut == CutAt(text, idx_chars, Len(e.placeholder))
                IN  IF ~cut.ok THEN [ok |-> FALSE, text |-> text]
                    ELSE ExpandEach(cut.before \o e.actual \o cut.tail, Tail(pp))

expand_placeholders_for_submit(a) ==
  IF a.pending_pastes = <<>> THEN [text |-> get_input_text(a), app |-> a]
  ELSE LET r == ExpandEach(get_input_text(a), a.pending_pastes)
       IN  IF ~r.ok THEN [text |-> <<>>, app |-> Panic(a)]
           ELSE [text |-> r.text, app |-> [a EXCEPT !.pending_pastes = <<>>]]

\* The loop of expand_placeholders_inline over (line, input_cursor, changed).
RECURSIVE InlineEach(_, _, _, _)
InlineEach(line, cursor, changed, pp) ==
  IF pp = <<>> THEN [ok |-> TRUE, line |-> line, cursor |-> cursor, changed |-> changed]
  ELSE LET e == Head(pp)
           start_chars == find_substring_char_index(line, e.placeholder)
       IN  IF start_chars = -1 THEN InlineEach(line, cursor, changed, Tail(pp))
           ELSE LET cut == CutAt(line, start_chars, Len(e.placeholder))
                IN  IF ~cut.ok
                    THEN [ok |-> FALSE, line |-> line, cursor |-> cursor,
                          changed |-> changed]
                    ELSE InlineEach(cut.before \o e.actual \o cut.tail,
                                    IF cursor >= start_chars
                                    THEN start_chars + Len(e.actual) ELSE cursor,
                                    TRUE, Tail(pp))

\* expand_placeholders_inline after a loop that changed the line: a line
\* with newlines is split into the multiline buffer
inline_split(a, r, parts) ==
  cleanup_pending_pastes(
    IF Len(parts) > 1
    THEN [a EXCEPT !.multiline_buffer = SubSeq(parts, 1, Len(parts) - 1),
                   !.input = parts[Len(parts)],
                   !.input_cursor = Len(parts[Len(parts)]),
                   !.input_mode = "MultiLine"]
    ELSE [a EXCEPT !.input = r.line, !.input_cursor = r.cursor])

\* expand_placeholders_inline once its loop has returned r
inline_expanded(a, r) ==
  IF ~r.ok THEN Panic(a)
  ELSE IF ~r.changed THEN a
  ELSE inline_split(a, r, SplitNL(r.line))

expand_placeholders_inline(a) ==
  IF a.pending_pastes = <<>> THEN a
  ELSE inline_expanded(a, InlineEach(a.input, a.input_cursor, FALSE,
                                     a.pending_pastes))

(***************************************************************************)
(* app_paste_text (tui/handler.rs:984-1091)                                *)
(***************************************************************************)
LARGE_PASTE_CHAR_THRESHOLD == 200
MEDIUM_PASTE_CHAR_THRESHOLD == 50

PasteMark == <<PUA_F8FF, U_UML, I_GRAVE, A_TILDE>>

paste_display(content) ==
  LET char_count == Len(content)
  IN  IF char_count > LARGE_PASTE_CHAR_THRESHOLD
      THEN PasteMark \o <<"[", "P", "A", "S", "T", "E", ":", " ">>
             \o FormatUsize(char_count) \o <<" ", "c", "h", "a", "r", "s", "]">>
      ELSE IF char_count > MEDIUM_PASTE_CHAR_THRESHOLD
      THEN LET preview == Take(content, MEDIUM_PASTE_CHAR_THRESHOLD)
               nlines == Len(Lines(content))
               first_line == IF Lines(preview) = <<>> THEN <<>> ELSE Lines(preview)[1]
               clean_preview ==
                 IF \E i \in DOMAIN preview : preview[i] = NL
                 THEN IF ByteLen(first_line) < MEDIUM_PASTE_CHAR_THRESHOLD - 10
                         /\ nlines > 1
                      THEN first_line \o <<".", ".", ".", " ", "(", "+">>
                             \o FormatUsize(nlines - 1)
                             \o <<" ", "l", "i", "n", "e", "s", ")">>
                      ELSE first_line
                 ELSE preview
           IN  clean_preview \o <<".", ".", ".">> \o PasteMark \o <<"[">>
                 \o FormatUsize(char_count)
                 \o <<" ", "c", "h", "a", "r", "s", " ", "t", "o", "t", "a", "l", "]">>
      ELSE content

\* insert_str at the cursor, the three single-line branches of app_paste_text
paste_inline(a, content) ==
  LET r == StringInsertStr(a.input,
                           char_to_byte_index(a.input, a.input_cursor), content)
  IN  IF ~r.ok THEN Panic(a)
      ELSE [a EXCEPT !.input = r.s, !.input_cursor = @ + Len(content)]

\* app_paste_text from the match on input_mode on: content is the text to
\* insert, lines its pieces between newlines
paste_lines(a, content, lines) ==
  LET has_newlines == \E i \in DOMAIN content : content[i] = NL
      n == Len(lines)
  IN  IF a.input_mode = "Normal"
      THEN IF has_newlines
           THEN IF n > 1
                THEN [a EXCEPT !.input_mode = "MultiLine",
                               !.multiline_buffer = @ \o SubSeq(lines, 1, n - 1),
                               !.input = lines[n],
                               !.input_cursor = Len(lines[n])]
                ELSE paste_inline([a EXCEPT !.input_mode = "MultiLine"], content)
           ELSE paste_inline(a, content)
      ELSE IF has_newlines
           THEN LET before == Take(a.input, a.input_cursor)
                    after == Skip(a.input, a.input_cursor)
                    new_first_line == before \o lines[1]
                IN  IF n = 1
                    THEN [a EXCEPT !.input = new_first_line \o after,
                                   !.input_cursor = Len(new_first_line)]
                    ELSE [a EXCEPT
                           !.multiline_buffer =
                              Append(@, new_first_line) \o SubSeq(lines, 2, n - 1),
                           !.input = lines[n] \o after,
                           !.input_cursor = Len(lines[n])]
           ELSE paste_inline(a, content)

\* app_paste_text once content_to_insert is computed
paste_content(a, pasted, content) ==
  paste_lines(IF Len(pasted) > MEDIUM_PASTE_CHAR_THRESHOLD
              THEN register_pending_paste(a, content, pasted) ELSE a,
              content, SplitNL(content))

app_paste_text(a, pasted) == paste_content(a, pasted, paste_display(pasted))

(***************************************************************************)
(* Events (tui/events.rs) and handle_key_event (tui/handler.rs:600-910)    *)
(***************************************************************************)
Key(code, ch, mods) == [code |-> code, ch |-> ch, mods |-> mods]

KeyEv(key) == [type |-> "Key", key |-> key]
PasteEv(content) == [type |-> "Paste", text |-> content]
UserInputEv(text) == [type |-> "UserInput", text |-> text]
ExecuteCommandEv(cmd) == [type |-> "ExecuteCommand", text |-> cmd]
ExecuteCodeEv(lang, code) == [type |-> "ExecuteCode", language |-> lang, text |-> code]
DescribeCommandEv(cmd) == [type |-> "DescribeCommand", text |-> cmd]
ShowVariablesEv == [type |-> "ShowVariables"]
\* req names the streaming task that sent the event, and for
\* ProcessNextMessage the task whose Done produced it; no handler reads it.
LlmStreamEv(kind, content, req) ==
  [type |-> "LlmStream", kind |-> kind, text |-> content, req |-> req]
ProcessNextMessageEv(req) == [type |-> "ProcessNextMessage", req |-> req]

Handled(a, out, quit) == [app |-> a, out |-> out, quit |-> quit]

\* Shift+Enter and Ctrl+J: start a new line
key_newline(a) ==
  IF a.input_mode = "Normal"
  THEN IF a.input # <<>>
       THEN [a EXCEPT !.input_mode = "MultiLine",
                      !.multiline_buffer = Append(@, a.input),
                      !.input = <<>>, !.input_cursor = 0]
       ELSE [a EXCEPT !.input_mode = "MultiLine"]
  ELSE [a EXCEPT !.multiline_buffer = Append(@, a.input),
                 !.input = <<>>, !.input_cursor = 0]

\* a submit_input that matches the letters against the untrimmed text
submit_input_untrimmed(a, input) ==
  LET t == Trim(input)
      shortcuts == (a.is_shell_mode /\ a.allow_interaction) \/ a.interpreter # "None"
  IN  IF a.panicked THEN Handled(a, <<>>, FALSE)
      ELSE IF t = <<"e", "x", "i", "t", "(", ")">> THEN Handled(a, <<>>, TRUE)
      ELSE IF shortcuts /\ input \in {<<"e">>, <<"r">>} /\ a.last_command # <<>>
      THEN Handled(clear_input(a),
                   <<IF a.interpreter # "None"
                     THEN ExecuteCodeEv(a.interpreter, a.last_command)
                     ELSE ExecuteCommandEv(a.last_command)>>,
                   FALSE)
      ELSE IF shortcuts /\ input = <<"d">> /\ a.last_command # <<>>
      THEN Handled(clear_input(a), <<DescribeCommandEv(a.last_command)>>, FALSE)
      ELSE IF shortcuts /\ input = <<"p">> /\ a.last_command # <<>>
      THEN Handled(clear_input(show_description(a, "Last Command", a.last_command)),
                   <<>>, FALSE)
      ELSE IF t # <<>>
      THEN Handled(clear_input(push_history(a, input)), <<UserInputEv(input)>>, FALSE)
      ELSE Handled(clear_input(a), <<>>, FALSE)

\* Enter and Ctrl+S once the placeholders are expanded: exit(), the
\* shortcuts on the last command, or the input sent as UserInput
submit_input(a, input) ==
  LET t == Trim(input)
      shortcuts == (a.is_shell_mode /\ a.allow_interaction) \/ a.interpreter # "None"
  IN  IF a.panicked THEN Handled(a, <<>>, FALSE)
      ELSE IF t = <<"e", "x", "i", "t", "(", ")">> THEN Handled(a, <<>>, TRUE)
      ELSE IF shortcuts /\ t \in {<<"e">>, <<"r">>} /\ a.last_command # <<>>
      THEN Handled(clear_input(a),
                   <<IF a.interpreter # "None"
                     THEN ExecuteCodeEv(a.interpreter, a.last_command)
                     ELSE ExecuteCommandEv(a.last_command)>>,
                   FALSE)
      ELSE IF shortcuts /\ t = <<"d">> /\ a.last_command # <<>>
      THEN Handled(clear_input(a), <<DescribeCommandEv(a.last_command)>>, FALSE)
      ELSE IF shortcuts /\ t = <<"p">> /\ a.last_command # <<>>
      THEN Handled(clear_input(show_description(a, "Last Command", a.last_command)),
                   <<>>, FALSE)
      ELSE IF t # <<>>
      THEN Handled(clear_input(push_history(a, input)), <<UserInputEv(input)>>, FALSE)
      ELSE Handled(clear_input(a), <<>>, FALSE)

submit_expanded(e) == submit_input(e.app, e.text)

\* Enter and Ctrl+S: submit the composer
key_submit(a) == submit_expanded(expand_placeholders_for_submit(a))

\* a toggle_multiline that leaves the buffered lines in place when it joins
\* them into the line
toggle_multiline_keep_buffer(a) ==
  IF a.input_mode = "Normal" THEN key_newline(a)
  ELSE IF a.multiline_buffer # <<>> \/ a.input # <<>>
  THEN LET all_lines == IF a.input # <<>> THEN Append(a.multiline_buffer, a.input)
                        ELSE a.multiline_buffer
           joined == JoinNL(all_lines)
       IN  [a EXCEPT !.input = joined, !.input_cursor = ByteLen(joined),
                     !.input_mode = "Normal"]
  ELSE [a EXCEPT !.input_mode = "Normal"]

\* Ctrl+M: toggle multiline mode
toggle_multiline(a) ==
  IF a.input_mode = "Normal" THEN key_newline(a)
  ELSE IF a.multiline_buffer # <<>> \/ a.input # <<>>
  THEN LET all_lines == IF a.input # <<>> THEN Append(a.multiline_buffer, a.input)
                        ELSE a.multiline_buffer
           joined == JoinNL(all_lines)
       IN  [a EXCEPT !.input = joined, !.input_cursor = ByteLen(joined),
                     !.multiline_buffer = <<>>, !.input_mode = "Normal"]
  ELSE [a EXCEPT !.input_mode = "Normal"]

scroll_up(a) == [a EXCEPT !.chat_scroll_offset = @ + 1]

scroll_down(a) ==
  IF a.chat_scroll_offset > 0 THEN [a EXCEPT !.chat_scroll_offset = @ - 1] ELSE a

handle_key_event(a, key) ==
  LET ctrl == "CONTROL" \in key.mods
      alt == "ALT" \in key.mods
      shift == "SHIFT" \in key.mods
      isch(c) == key.code = "Char" /\ key.ch = c
      same(b) == Handled(b, <<>>, FALSE)
  IN  IF is_popup_shown(a) THEN same(hide_popup(a))
      ELSE IF isch("j") /\ ctrl THEN same(key_newline(a))
      ELSE IF isch("s") /\ ctrl THEN key_submit(a)
      ELSE IF isch("c") /\ ctrl
      THEN LET r == handle_ctrl_c(a) IN Handled(r.app, <<>>, r.quit)
      ELSE IF isch("d") /\ ctrl
      THEN IF Trim(get_input_text(a)) = <<>> THEN Handled(a, <<>>, TRUE)
           ELSE same(delete(a))
      ELSE IF isch("l") /\ ctrl
      THEN Handled(a, IF a.interpreter # "None" THEN <<ShowVariablesEv>> ELSE <<>>, FALSE)
      ELSE IF isch("e") /\ ctrl /\ shift THEN same(expand_placeholders_inline(a))
      ELSE IF isch("E") /\ ctrl THEN same(expand_placeholders_inline(a))
      ELSE IF isch("a") /\ ctrl THEN same(move_cursor_home(a))
      ELSE IF isch("e") /\ ctrl THEN same(move_cursor_end(a))
      ELSE IF isch("u") /\ ctrl THEN same(kill_to_line_start(a))
      ELSE IF isch("k") /\ ctrl THEN same(kill_to_line_end(a))
      ELSE IF isch("w") /\ ctrl THEN same(delete_prev_word(a))
      ELSE IF key.code = "Backspace" /\ alt THEN same(delete_prev_word(a))
      ELSE IF key.code = "Delete" /\ alt THEN same(delete_next_word(a))
      ELSE IF key.code = "Left" /\ (alt \/ ctrl) THEN same(move_cursor_word_left(a))
      ELSE IF key.code = "Right" /\ (alt \/ ctrl) THEN same(move_cursor_word_right(a))
      ELSE IF isch("m") /\ ctrl THEN same(toggle_multiline(a))
      ELSE IF key.code = "F1" THEN same(toggle_help(a))
      ELSE IF (isch("h") \/ isch("/") \/ isch("?")) /\ ctrl THEN same(toggle_help(a))
      ELSE IF key.code = "Up"
      THEN IF ctrl \/ a.input_mode = "MultiLine" THEN same(scroll_up(a))
           ELSE same(history_prev(a))
      ELSE IF key.code = "Down"
      THEN IF ctrl \/ a.input_mode = "MultiLine" THEN same(scroll_down(a))
           ELSE same(history_next(a))
      ELSE IF key.code = "Enter"
      THEN IF shift THEN same(key_newline(a)) ELSE key_submit(a)
      ELSE IF key.code = "Backspace" THEN same(backspace(a))
      ELSE IF key.code = "Delete" THEN same(delete(a))
      ELSE IF key.code = "Left" THEN same(move_cursor_left(a))
      ELSE IF key.code = "Right" THEN same(move_cursor_right(a))
      ELSE IF key.code = "Home" THEN same(move_cursor_home(a))
      ELSE IF key.code = "End" THEN same(move_cursor_end(a))
      ELSE IF key.code = "Char" /\ ~ctrl THEN same(insert_char(a, key.ch))
      ELSE same(a)

(***************************************************************************)
(* handle_user_input and handle_llm_stream_event (tui/handler.rs:913-1126) *)
(***************************************************************************)
interpreter_prompt(lang) ==
  IF lang = "Python" THEN <<Msg("System", <<"<Python code generator>">>)>>
  ELSE IF lang = "R" THEN <<Msg("System", <<"<R code generator>">>)>>
  ELSE <<>>

\* The task tokio::spawn creates for one request; its stream has yielded n
\* items, and emitted lists the events the task has sent so far.
NewTask(input, request) ==
  [input |-> input, request |-> request, pc |-> "streaming", n |-> 0,
   emitted |-> <<>>]

handle_user_input(a, ts, input) ==
  IF Trim(input) = <<>> THEN [app |-> a, tasks |-> ts]
  ELSE LET b == start_response(add_message(a, Msg("User", input)))
       IN  [app |-> b,
            tasks |-> Append(ts, NewTask(input,
                                         interpreter_prompt(b.interpreter) \o b.messages))]

\* format_stream_error_message: header, the error text, then the hints the
\* error text selects.
format_stream_error_message(err_text) ==
  <<"<Failed to stream from LLM.>", NL>> \o err_text
    \o (IF \E i \in DOMAIN err_text : err_text[i] = "401"
        THEN <<NL, "<Hints: Set OPENAI_API_KEY>">> ELSE <<>>)

(***************************************************************************)
(* The system: bounds, initial states, producers, the loop's handlers      *)
(***************************************************************************)
\* Terminal events the user produces in one session
MaxKeys == 4
\* Items one completion stream yields before it ends
MaxItems == 1
\* Terminal events waiting in the channel: the user presses the next key
\* after the loop took the last one
MaxPendingKeys == 1
\* Events the completion streams of one session deliver in all
MaxStreamEvents == 4

NoEvent == [type |-> "none"]

SystemPrompt == Msg("System", <<"<role>">>)

NoStore == [exists |-> FALSE, messages |-> <<>>]

\* an InitWith that does not invalidate the "temp" session
InitWith_keep_temp(chat_ids, stores, shells, prompts) ==
  \E id \in chat_ids, st \in stores, sh \in shells, pr \in prompts :
    /\ store = st
    /\ app = App_new(id, IF store.exists THEN store.messages ELSE <<SystemPrompt>>,
                     sh.is_shell, sh.allow_interaction, sh.model, sh.interpreter)
    /\ chan = <<>>
    /\ tasks = <<>>
    /\ term = [nkeys |-> 0, typed |-> {}, init_prompt |-> pr, streamed |-> 0,
               py_stdin |-> <<>>, req_counter |-> 1, child |-> "none",
               py_served |-> 0, py_stdout |-> <<>>, reader |-> "none",
               nstray |-> 0]
    /\ exit = IF sh.interpreter = "Python" THEN "starting" ELSE "running"
    /\ last = NoEvent
    /\ hist = [sent |-> <<>>, completed |-> {}, pnm |-> {}, dequeued |-> 0]

\* run_tui_repl up to the call of run_app: a "temp" session is invalidated,
\* an existing session file is read, the initial prompt's task is spawned.
\* run_app starts the interpreter before it enters the loop: exit is
\* "starting" until then.  term.child is the interpreter process, py_stdin
\* the requests written to it, of which it has served py_served, py_stdout
\* the lines it has written and the reader task has not read yet.
InitWith(chat_ids, stores, shells, prompts) ==
  \E id \in chat_ids, st \in stores, sh \in shells, pr \in prompts :
    /\ store = IF id = "temp" THEN NoStore ELSE st
    /\ app = App_new(id, IF store.exists THEN store.messages ELSE <<SystemPrompt>>,
                     sh.is_shell, sh.allow_interaction, sh.model, sh.interpreter)
    /\ chan = <<>>
    /\ tasks = <<>>
    /\ term = [nkeys |-> 0, typed |-> {}, init_prompt |-> pr, streamed |-> 0,
               py_stdin |-> <<>>, req_counter |-> 1, child |-> "none",
               py_served |-> 0, py_stdout |-> <<>>, reader |-> "none",
               nstray |-> 0]
    /\ exit = IF sh.interpreter = "Python" THEN "starting" ELSE "running"
    /\ last = NoEvent
    /\ hist = [sent |-> <<>>, completed |-> {}, pnm |-> {}, dequeued |-> 0]

\* The arguments model, is_shell, allow_interaction and interpreter of
\* run_tui_repl
ChatMode ==
  [is_shell |-> FALSE, allow_interaction |-> FALSE, interpreter |-> "None",
   model |-> "gpt"]
ShellMode == [ChatMode EXCEPT !.is_shell = TRUE, !.allow_interaction = TRUE]
PythonMode == [ChatMode EXCEPT !.interpreter = "Python"]

NoPrompt == [some |-> FALSE, text |-> <<>>]
Prompt(text) == [some |-> TRUE, text |-> text]

Running == exit = "running"

UserInputsOf(out) ==
  LET isui(e) == e.type = "UserInput"
      sel == SelectSeq(out, isui)
  IN  [i \in DOMAIN sel |-> sel[i].text]

\* The task spawned at handler.rs:107-115 sends the initial prompt.
InitPromptSend ==
  /\ Running
  /\ term.init_prompt.some
  /\ chan' = Append(chan, UserInputEv(term.init_prompt.text))
  /\ term' = [term EXCEPT !.init_prompt = NoPrompt]
  /\ hist' = [hist EXCEPT !.sent = Append(@, term.init_prompt.text)]
  /\ last' = NoEvent
  /\ UNCHANGED <<app, tasks, exit, store>>

IsTerminalEv(e) == e.type \in {"Key", "Paste"}

\* The user presses at most max_keys keys in the session.
UserMayType(max_keys) ==
  /\ Running
  /\ term.nkeys < max_keys
  /\ Len(SelectSeq(chan, IsTerminalEv)) < MaxPendingKeys

\* The input thread (handler.rs:364-391) forwards one key press.
PollKey(key, max_keys) ==
  /\ UserMayType(max_keys)
  /\ chan' = Append(chan, KeyEv(key))
  /\ term' = [term EXCEPT !.nkeys = @ + 1,
                          !.typed = IF key.code = "Char" /\ key.mods = {}
                                    THEN @ \cup {key.ch} ELSE @]
  /\ last' = NoEvent
  /\ UNCHANGED <<app, tasks, exit, store, hist>>

\* The input thread forwards one bracketed paste.
PollPaste(content, max_keys) ==
  /\ UserMayType(max_keys)
  /\ chan' = Append(chan, PasteEv(content))
  /\ term' = [term EXCEPT !.nkeys = @ + 1]
  /\ last' = NoEvent
  /\ UNCHANGED <<app, tasks, exit, store, hist>>

HeadIs(type) == Running /\ chan # <<>> /\ Head(chan).type = type

ExitAfter(a, quit) ==
  IF a.panicked THEN "panic" ELSE IF quit THEN "quit" ELSE "running"

\* run_app after the loop (handler.rs:588-597): the interpreter is killed
shutdown(t) == [t EXCEPT !.child = IF @ = "running" THEN "killed" ELSE @]

\* run_app, TuiEvent::Key, once handle_key_event has returned r; a quit
\* breaks the loop and run_app shuts down
KeyHandled(r) ==
  /\ app' = r.app
  /\ chan' = Tail(chan) \o r.out
  /\ exit' = ExitAfter(r.app, r.quit)
  /\ hist' = [hist EXCEPT !.sent = @ \o UserInputsOf(r.out)]
  /\ last' = Head(chan)
  /\ term' = IF ExitAfter(r.app, r.quit) = "quit" THEN shutdown(term) ELSE term
  /\ UNCHANGED <<tasks, store>>

\* run_app, TuiEvent::Key
HandleKey ==
  /\ HeadIs("Key")
  /\ KeyHandled(handle_key_event(app, Head(chan).key))

\* run_app, TuiEvent::Paste
HandlePaste ==
  /\ HeadIs("Paste")
  /\ app' = app_paste_text(app, Head(chan).text)
  /\ chan' = Tail(chan)
  /\ exit' = ExitAfter(app', FALSE)
  /\ last' = Head(chan)
  /\ UNCHANGED <<tasks, term, store, hist>>

\* run_app, TuiEvent::UserInput
HandleUserInput ==
  /\ HeadIs("UserInput")
  /\ LET input == Head(chan).text
         q == try_queue_message(app, input)
         h == handle_user_input(app, tasks, input)
     IN  IF q.queued
         THEN app' = q.app /\ tasks' = tasks
         ELSE app' = h.app /\ tasks' = h.tasks
  /\ chan' = Tail(chan)
  /\ last' = Head(chan)
  /\ UNCHANGED <<term, exit, store, hist>>

\* run_app, TuiEvent::ProcessNextMessage
HandleProcessNext ==
  /\ HeadIs("ProcessNextMessage")
  /\ LET d == dequeue_message(app)
         h == handle_user_input(d.app, tasks, d.msg)
     IN  /\ IF d.some
            THEN app' = h.app /\ tasks' = h.tasks
            ELSE app' = d.app /\ tasks' = tasks
         /\ hist' = [hist EXCEPT !.pnm = @ \cup {Head(chan).req},
                                 !.dequeued = IF d.some THEN @ + 1 ELSE @]
  /\ chan' = Tail(chan)
  /\ last' = Head(chan)
  /\ UNCHANGED <<term, exit, store>>

\* handle_llm_stream_event; session.write may return an error, which run_app
\* returns (write_ok = FALSE).
HandleLlmStream(write_ok) ==
  /\ HeadIs("LlmStream")
  /\ LET ev == Head(chan)
     IN  IF ev.kind = "Content"
         THEN /\ write_ok
              /\ app' = scroll_to_bottom(append_response(app, ev.text))
              /\ chan' = Tail(chan)
              /\ UNCHANGED <<store, exit, hist>>
         ELSE IF ev.kind = "Done"
         THEN LET b == finish_response(app)
                  writes == b.chat_id # "temp" /\ b.messages # <<>>
              IN  /\ app' = b
                  /\ hist' = [hist EXCEPT !.completed = @ \cup {ev.req}]
                  /\ IF writes /\ ~write_ok
                     THEN /\ exit' = "error"
                          /\ chan' = Tail(chan)
                          /\ store' = store
                     ELSE /\ write_ok
                          /\ exit' = exit
                          /\ store' = IF writes
                                      THEN [exists |-> TRUE, messages |-> b.messages]
                                      ELSE store
                          /\ chan' = Append(Tail(chan), ProcessNextMessageEv(ev.req))
         ELSE /\ write_ok
              /\ app' = app
              /\ chan' = Tail(chan)
              /\ UNCHANGED <<store, exit, hist>>
  /\ last' = Head(chan)
  /\ UNCHANGED <<tasks, term>>

(***************************************************************************)
(* The streaming task of one request (tui/handler.rs:957-979)              *)
(***************************************************************************)
StreamItemKinds == {"Content"}
StreamChunks == {<<"x">>}
StreamErrors == {<<"401">>}

\* Task t is at one of pcs, and the streams of the session have delivered
\* fewer than max_events events.
TaskAt(t, pcs, max_events) ==
  /\ Running
  /\ term.streamed < max_events
  /\ t \in DOMAIN tasks
  /\ tasks[t].pc \in pcs

\* tx.send(TuiEvent::LlmStream(ev)) by task t, which continues as task
TaskEmit(t, kind, content, task) ==
  /\ chan' = Append(chan, LlmStreamEv(kind, content, t))
  /\ tasks' = [tasks EXCEPT ![t] =
                 [task EXCEPT !.emitted = Append(@, [kind |-> kind, text |-> content])]]
  /\ term' = [term EXCEPT !.streamed = @ + 1]
  /\ last' = NoEvent
  /\ UNCHANGED <<app, exit, store, hist>>

TaskSend(t, kind, content, pc) ==
  TaskEmit(t, kind, content, [tasks[t] EXCEPT !.pc = pc])

\* stream.next() yields Ok(Content) or Ok(ToolCallDelta): forwarded
TaskItem(t, kind, max_events) ==
  /\ TaskAt(t, {"streaming"}, max_events)
  /\ tasks[t].n < MaxItems
  /\ \E c \in (IF kind = "Content" THEN StreamChunks ELSE {<<>>}) :
       TaskEmit(t, kind, c, [tasks[t] EXCEPT !.n = @ + 1])

\* stream.next() yields Ok(Done): forwarded; the stream has nothing more
TaskStreamDone(t, max_events) ==
  /\ TaskAt(t, {"streaming"}, max_events)
  /\ TaskSend(t, "Done", <<>>, "drained")

\* stream.next() yields None: the loop ends and the trailing Done is sent
TaskStreamEnd(t, max_events) ==
  /\ TaskAt(t, {"streaming", "drained"}, max_events)
  /\ TaskSend(t, "Done", <<>>, "finished")

\* stream.next() yields Err: the friendly message is sent
TaskStreamErr(t, max_events) ==
  /\ TaskAt(t, {"streaming"}, max_events)
  /\ \E err \in StreamErrors :
       TaskSend(t, "Content", format_stream_error_message(err), "err_content_sent")

\* the error branch sends Done and breaks
TaskErrDone(t, max_events) ==
  /\ TaskAt(t, {"err_content_sent"}, max_events)
  /\ TaskSend(t, "Done", <<>>, "after_loop")

\* after the break, the trailing Done is sent
TaskTrailingDone(t, max_events) ==
  /\ TaskAt(t, {"after_loop"}, max_events)
  /\ TaskSend(t, "Done", <<>>, "finished")

TaskStep(t, max_events) ==
  \/ \E kind \in StreamItemKinds : TaskItem(t, kind, max_events)
  \/ TaskStreamDone(t, max_events)
  \/ TaskStreamEnd(t, max_events)
  \/ TaskStreamErr(t, max_events)
  \/ TaskErrDone(t, max_events)
  \/ TaskTrailingDone(t, max_events)

LoopStep ==
  \/ HandleKey
  \/ HandleUserInput
  \/ HandleProcessNext
  \/ \E write_ok \in BOOLEAN : HandleLlmStream(write_ok)

(***************************************************************************)
(* Spec: a session in which the user types and submits, requests stream    *)
(***************************************************************************)
\* Requests one session can dispatch: the initial prompt and one per two keys
MaxRequests == 1 + MaxKeys \div 2

CharKey(c) == Key("Char", c, {})
EnterKey == Key("Enter", "", {})

SessionChars == {"a", "b"}

\* The user types every character at most once, so that any two submitted
\* texts differ and their order can be told.
PollSessionKey(max_keys) ==
  \/ \E c \in SessionChars \ term.typed : PollKey(CharKey(c), max_keys)
  \/ PollKey(EnterKey, max_keys)

Init ==
  InitWith({"s1"}, {NoStore}, {ChatMode}, {Prompt(<<"p">>), Prompt(<<" ">>)})

Next ==
  \/ InitPromptSend
  \/ PollSessionKey(MaxKeys)
  \/ LoopStep
  \/ \E t \in 1..MaxRequests : TaskStep(t, MaxStreamEvents)

Spec == Init /\ [][Next]_vars

(***************************************************************************)
(* SpecLive: the same session with fair scheduling of the loop and of the  *)
(* streaming tasks, and streams that always deliver all their events       *)
(***************************************************************************)
\* Terminal events the user produces in a session of SpecLive
LiveKeys == 2

LiveRequests == 1 + LiveKeys \div 2

\* No stream is cut short: a task sends at most MaxItems + 3 events
LiveEvents == LiveRequests * (MaxItems + 3)

InitLive == InitWith({"s1"}, {NoStore}, {ChatMode}, {NoPrompt, Prompt(<<"p">>)})

NextLive ==
  \/ InitPromptSend
  \/ PollSessionKey(LiveKeys)
  \/ LoopStep
  \/ \E t \in 1..LiveRequests : TaskStep(t, LiveEvents)

\* The loop polls event_rx.try_recv() every 16 ms and handles what it
\* receives; the tokio runtime polls every spawned task.
SpecLive ==
  /\ InitLive
  /\ [][NextLive]_vars
  /\ WF_vars(LoopStep)
  /\ \A t \in 1..LiveRequests : WF_vars(TaskStep(t, LiveEvents))

(***************************************************************************)
(* SpecEdit: insert_char, backspace, delete and the cursor moves called on *)
(* a fresh editor, as the unit test in tui/app.rs:796-820 calls them       *)
(***************************************************************************)
\* Calls made on the editor
MaxEdits == 5

EditChars == {"a", E_ACUTE, CJK_XU}

EditOp(op) == [type |-> "edit", op |-> op]

Edit(op, a) ==
  /\ term.nkeys < MaxEdits
  /\ ~app.panicked
  /\ app' = a
  /\ term' = [term EXCEPT !.nkeys = @ + 1]
  /\ last' = EditOp(op)
  /\ UNCHANGED <<chan, tasks, exit, store, hist>>

InitEdit == InitWith({"temp"}, {NoStore}, {ChatMode}, {NoPrompt})

NextEdit ==
  \/ \E c \in EditChars : Edit("insert_char", insert_char(app, c))
  \/ Edit("backspace", backspace(app))
  \/ Edit("delete", delete(app))
  \/ Edit("move_cursor_left", move_cursor_left(app))
  \/ Edit("move_cursor_right", move_cursor_right(app))
  \/ Edit("move_cursor_home", move_cursor_home(app))
  \/ Edit("move_cursor_end", move_cursor_end(app))

SpecEdit == InitEdit /\ [][NextEdit]_vars

(***************************************************************************)
(* SpecComposer: the user edits the composer with keys and pastes; the     *)
(* loop handles them and the inputs they submit; no stream delivers        *)
(***************************************************************************)
\* Terminal events the user produces in a session of SpecComposer
MaxComposerEvents == 4

\* A paste above the large threshold
LargePaste(c) == [i \in 1..(LARGE_PASTE_CHAR_THRESHOLD + 1) |-> c]

\* The two large pastes have the same length, so the same placeholder.
ComposerPastes == {<<"a", NL, E_ACUTE>>, LargePaste("a"), LargePaste("b")}

ComposerKeys ==
  {CharKey(c) : c \in {"a", " ", E_ACUTE}}
    \cup {Key(code, "", {}) :
            code \in {"Backspace", "Delete", "Left", "Right", "Home", "End",
                      "Up", "Down", "Enter"}}
    \cup {Key("Left", "", {"CONTROL"}), Key("Right", "", {"ALT"}),
          Key("Delete", "", {"ALT"}), Key("Enter", "", {"SHIFT"})}
    \cup {Key("Char", c, {"CONTROL"}) : c \in {"w", "u", "k", "m", "c"}}
    \cup {Key("Char", "e", {"CONTROL", "SHIFT"})}

\* Time passes since the Instant handle_ctrl_c recorded: the elapsed time
\* reaches the double-press window exactly, then exceeds it.
ClockTick ==
  /\ Running
  /\ app.last_ctrl_c_time \in 0..DOUBLE_CTRL_C_TIMEOUT
  /\ app' = [app EXCEPT !.last_ctrl_c_time =
                IF @ < DOUBLE_CTRL_C_TIMEOUT THEN DOUBLE_CTRL_C_TIMEOUT
                ELSE DOUBLE_CTRL_C_TIMEOUT + 1]
  /\ last' = NoEvent
  /\ UNCHANGED <<chan, tasks, term, exit, store, hist>>

InitComposer == InitWith({"temp"}, {NoStore}, {ChatMode}, {NoPrompt})

NextComposer ==
  \/ \E key \in ComposerKeys : PollKey(key, MaxComposerEvents)
  \/ \E content \in ComposerPastes : PollPaste(content, MaxComposerEvents)
  \/ ClockTick
  \/ HandleKey
  \/ HandlePaste
  \/ HandleUserInput

SpecComposer == InitComposer /\ [][NextComposer]_vars

(***************************************************************************)
(* Commands, descriptions and the overlay (tui/handler.rs:450-579)         *)
(***************************************************************************)
\* What execute_command_with_output returns for the command it ran
ExecOutputs == {<<"<out>">>}

generate_fake_command_description(command) ==
  LET up == <<"A", "B", "C", "D", "E", "F", "G", "H", "I", "J", "K", "L", "M",
              "N", "O", "P", "Q", "R", "S", "T", "U", "V", "W", "X", "Y", "Z">>
      lo == <<"a", "b", "c", "d", "e", "f", "g", "h", "i", "j", "k", "l", "m",
              "n", "o", "p", "q", "r", "s", "t", "u", "v", "w", "x", "y", "z">>
      lower(c) == IF \E i \in DOMAIN up : up[i] = c
                  THEN lo[CHOOSE i \in DOMAIN up : up[i] = c] ELSE c
      cmd_lower == [i \in DOMAIN command |-> lower(command[i])]
      starts(w) == IsPrefixAt(cmd_lower, w, 0)
      contains(w) == StrContains(cmd_lower, w)
  IN  IF starts(<<"l", "s">>) THEN <<"<List directory contents.>">>
      ELSE IF starts(<<"g", "i", "t">>)
      THEN IF contains(<<"s", "t", "a", "t", "u", "s">>)
           THEN <<"<Show the working tree status.>">>
           ELSE IF contains(<<"c", "o", "m", "m", "i", "t">>)
           THEN <<"<Record changes to the repository.>">>
           ELSE IF contains(<<"p", "u", "s", "h">>)
           THEN <<"<Update remote repository with local commits.>">>
           ELSE <<"<Git is a distributed version control system.>">>
      ELSE IF starts(<<"f", "i", "n", "d">>) THEN <<"<Search for files and directories.>">>
      ELSE IF starts(<<"g", "r", "e", "p">>) THEN <<"<Search text patterns in files.>">>
      ELSE IF starts(<<"p", "s">>) THEN <<"<Display running processes.>">>
      ELSE IF starts(<<"d", "o", "c", "k", "e", "r">>) THEN <<"<Container platform command.>">>
      ELSE IF starts(<<"c", "u", "r", "l">>) THEN <<"<Transfer data from or to servers.>">>
      ELSE IF starts(<<"a", "p", "t">>) \/ starts(<<"s", "u", "d", "o", " ", "a", "p", "t">>)
      THEN <<"<Package management for Debian/Ubuntu systems.>">>
      ELSE <<"<Command: >">> \o command
             \o <<NL, NL, "<This is a fake description for testing purposes.>">>

\* The first fenced block of the code, or the trimmed code; <U+0060> is the
\* backtick
sanitize_generated_code(s) ==
  LET trimmed == Trim(s)
      fence == <<"<U+0060>", "<U+0060>", "<U+0060>">>
      body == Tail(Lines(trimmed))
      stop == {k \in DOMAIN body : IsPrefixAt(body[k], fence, 0)}
      kept == IF stop = {} THEN body
              ELSE SubSeq(body, 1, (CHOOSE k \in stop : \A j \in stop : k <= j) - 1)
  IN  IF IsPrefixAt(trimmed, fence, 0)
      THEN IF kept = <<>> THEN <<>> ELSE JoinNL(kept) \o <<NL>>
      ELSE trimmed

\* A background task sends ev and continues at pc having read n items.
TaskPost(t, ev, pc, n) ==
  /\ chan' = Append(chan, ev)
  /\ tasks' = [tasks EXCEPT ![t] = [@ EXCEPT !.pc = pc, !.n = n]]
  /\ last' = NoEvent
  /\ UNCHANGED <<app, term, exit, store, hist>>

\* run_app, TuiEvent::ExecuteCommand: the command runs in a blocking task
HandleExecuteCommand ==
  /\ HeadIs("ExecuteCommand")
  /\ tasks' = Append(tasks, [NewTask(Head(chan).text, <<>>) EXCEPT !.pc = "executing"])
  /\ chan' = Tail(chan)
  /\ last' = Head(chan)
  /\ UNCHANGED <<app, term, exit, store, hist>>

\* the blocking task has run the command and sends its output
ExecTaskStep(t) ==
  /\ Running
  /\ t \in DOMAIN tasks
  /\ tasks[t].pc = "executing"
  /\ \E output \in ExecOutputs :
       TaskPost(t, [type |-> "ExecutionResult", command |-> tasks[t].input,
                    output |-> output], "finished", 0)

\* run_app, TuiEvent::ExecutionResult
HandleExecutionResult ==
  /\ HeadIs("ExecutionResult")
  /\ app' = show_execution_result(app, Head(chan).command, Head(chan).output)
  /\ chan' = Tail(chan)
  /\ last' = Head(chan)
  /\ UNCHANGED <<tasks, term, exit, store, hist>>

\* run_app, TuiEvent::DescribeCommand
HandleDescribeCommand ==
  /\ HeadIs("DescribeCommand")
  /\ LET cmd == Head(chan).text
     IN  IF app.model = "fake"
         THEN /\ app' = show_description(app, cmd, generate_fake_command_description(cmd))
              /\ chan' = Tail(chan)
              /\ tasks' = tasks
         ELSE /\ app' = app
              /\ chan' = Append(Tail(chan),
                                [type |-> "StartStreamingDescription", text |-> cmd])
              /\ tasks' = Append(tasks, [NewTask(cmd, <<>>) EXCEPT !.pc = "describing"])
  /\ last' = Head(chan)
  /\ UNCHANGED <<term, exit, store, hist>>

\* The task spawned for a description (handler.rs:475-496) around
\* generate_streaming_command_description (handler.rs:1287-1327)
DescribeTaskStep(t) ==
  /\ Running
  /\ t \in DOMAIN tasks
  /\ \/ /\ tasks[t].pc = "describing"
        /\ tasks[t].n < MaxItems
        /\ \E c \in StreamChunks :
             TaskPost(t, [type |-> "DescriptionContent", text |-> c],
                      "describing", tasks[t].n + 1)
     \/ /\ tasks[t].pc = "describing"
        /\ TaskPost(t, [type |-> "DescriptionStreamFinished"], "finished", tasks[t].n)
     \/ /\ tasks[t].pc = "describing"
        /\ TaskPost(t, [type |-> "DescriptionContent",
                        text |-> <<"<Failed to generate description for: >">>
                                   \o tasks[t].input],
                    "describe_failed", tasks[t].n)
     \/ /\ tasks[t].pc = "describe_failed"
        /\ TaskPost(t, [type |-> "DescriptionStreamFinished"], "finished", tasks[t].n)

\* run_app, TuiEvent::StartStreamingDescription, DescriptionContent and
\* DescriptionStreamFinished
HandleDescriptionEvent ==
  /\ Running
  /\ chan # <<>>
  /\ \/ /\ Head(chan).type = "StartStreamingDescription"
        /\ app' = start_streaming_description(app, Head(chan).text)
     \/ /\ Head(chan).type = "DescriptionContent"
        /\ app' = append_description_content(app, Head(chan).text)
     \/ /\ Head(chan).type = "DescriptionStreamFinished"
        /\ app' = finish_streaming_description(app)
  /\ chan' = Tail(chan)
  /\ last' = Head(chan)
  /\ UNCHANGED <<tasks, term, exit, store, hist>>

\* a take_request_id that does not advance the counter
take_request_id_reuse(counter, prefix) ==
  [id |-> prefix \o FormatUsize(counter), next |-> counter]

\* let cur = req_counter; req_counter = req_counter.wrapping_add(1);
\* format!("req-{}", cur) or format!("vars-{}", cur)
take_request_id(counter, prefix) ==
  [id |-> prefix \o FormatUsize(counter), next |-> counter + 1]

\* run_app, TuiEvent::ExecuteCode: the request is written to the stdin of
\* the interpreter, which run_app started if app.interpreter is Python.
\* req_counter wraps at 2^64, out of reach of a bounded session.
HandleExecuteCode ==
  /\ HeadIs("ExecuteCode")
  /\ IF Head(chan).language = "Python"
     THEN IF term.child # "none"
          THEN LET r == take_request_id(term.req_counter, <<"r", "e", "q", "-">>)
               IN  /\ term' = [term EXCEPT
                                 !.py_stdin =
                                    Append(@, [id |-> r.id,
                                               method |-> "execute",
                                               code |-> sanitize_generated_code(Head(chan).text)]),
                                 !.req_counter = r.next]
                   /\ app' = app
          ELSE /\ app' = add_message(app, Msg("Assistant", <<"<Interpreter not initialized>">>))
               /\ term' = term
     ELSE /\ app' = add_message(
                      app, Msg("Assistant", <<"<R interpreter is not yet implemented>">>))
          /\ term' = term
  /\ chan' = Tail(chan)
  /\ last' = Head(chan)
  /\ UNCHANGED <<tasks, exit, store, hist>>

(***************************************************************************)
(* The interpreter bridge (tui/handler.rs:165-358, 530-564)                *)
(***************************************************************************)
\* run_app before the loop: start_python spawns the child with its pipes
\* and the reader task is spawned; if the spawn fails, run_app returns the
\* error of start_python.
StartPython ==
  /\ exit = "starting"
  /\ \/ /\ term' = [term EXCEPT !.child = "running", !.reader = "reading"]
        /\ exit' = "running"
     \/ /\ term' = [term EXCEPT !.child = "failed"]
        /\ exit' = "error"
  /\ last' = NoEvent
  /\ UNCHANGED <<app, chan, tasks, store, hist>>

\* JSON values (serde_json::Value)
JNull == [t |-> "null"]
JStr(s) == [t |-> "str", s |-> s]
JBool(b) == [t |-> "bool", b |-> b]
JNum(n) == [t |-> "num", n |-> n]
JArr(a) == [t |-> "arr", a |-> a]
JObj(f) == [t |-> "obj", f |-> f]

\* Value::get(key) is Some
Has(v, key) == v.t = "obj" /\ key \in DOMAIN v.f

\* v.get(key).and_then(|v| v.as_str()).unwrap_or(default)
str_or(v, key, default) ==
  IF Has(v, key) /\ v.f[key].t = "str" THEN v.f[key].s ELSE default

\* a bool_or_false whose default is true
bool_or_true(v, key) ==
  IF Has(v, key) /\ v.f[key].t = "bool" THEN v.f[key].b ELSE TRUE

\* v.get(key).and_then(|v| v.as_bool()).unwrap_or(false)
bool_or_false(v, key) ==
  IF Has(v, key) /\ v.f[key].t = "bool" THEN v.f[key].b ELSE FALSE

\* the strings of the array v.get("errors"), in order
error_strings(v) ==
  IF Has(v, "errors") /\ v.f["errors"].t = "arr"
  THEN LET isstr(e) == e.t = "str"
           strs == SelectSeq(v.f["errors"].a, isstr)
       IN  [i \in DOMAIN strs |-> strs[i].s]
  ELSE <<>>

\* the entries of the object v.get("variables") whose value is a string
variable_strings(v) ==
  IF Has(v, "variables") /\ v.f["variables"].t = "obj"
  THEN LET vars_obj == v.f["variables"].f
           names == {k \in DOMAIN vars_obj : vars_obj[k].t = "str"}
       IN  [k \in names |-> vars_obj[k].s]
  ELSE <<>>

NoVariables == <<>>

CodeExecResult(success, output, errors, variables) ==
  [success |-> success, output |-> output, errors |-> errors,
   variables |-> variables, plots |-> <<>>]

\* The result the reader task makes of a parsed line
parse_result(parsed) ==
  IF Has(parsed, "result")
  THEN LET obj == parsed.f["result"]
       IN  CodeExecResult(bool_or_false(obj, "success"), str_or(obj, "output", <<>>),
                          error_strings(obj), variable_strings(obj))
  ELSE IF Has(parsed, "error")
  THEN CodeExecResult(FALSE, <<>>,
                      <<str_or(parsed.f["error"], "message", <<"<error>">>)>>,
                      NoVariables)
  ELSE CodeExecResult(FALSE, <<>>, <<<<"<invalid_response>">>>>, NoVariables)

\* The names a session's variables can have, in the order of str::cmp
VarNames == <<"x", "y">>

\* keys.sort() in reverse order
sorted_keys_reversed(variables) ==
  LET has(k) == k \in DOMAIN variables
      up == SelectSeq(VarNames, has)
  IN  [i \in DOMAIN up |-> up[Len(up) + 1 - i]]

\* res.variables.keys().cloned().collect(), then keys.sort()
sorted_keys(variables) ==
  LET has(k) == k \in DOMAIN variables IN SelectSeq(VarNames, has)

RECURSIVE variable_lines(_, _)
variable_lines(keys, variables) ==
  IF keys = <<>> THEN <<>>
  ELSE <<"- ", Head(keys), ": ">> \o variables[Head(keys)] \o <<NL>>
         \o variable_lines(Tail(keys), variables)

\* The text of a variables snapshot
variables_text(variables) ==
  <<"Variables:", NL>>
    \o IF DOMAIN variables = {} THEN <<"(none)", NL>>
       ELSE variable_lines(sorted_keys(variables), variables)

VarsPrefix == <<"v", "a", "r", "s", "-">>

\* str::starts_with
starts_with(s, prefix) ==
  Len(s) >= Len(prefix) /\ SubSeq(s, 1, Len(prefix)) = prefix

CodeExecutionResultEv(res) == [type |-> "CodeExecutionResult", res |-> res]
VariablesSnapshotEv(text) == [type |-> "VariablesSnapshot", text |-> text]

\* The event the reader task sends for a parsed line
route_response(parsed) ==
  LET id_str == str_or(parsed, "id", <<>>)
      res == parse_result(parsed)
  IN  IF starts_with(id_str, VarsPrefix)
      THEN VariablesSnapshotEv(variables_text(res.variables))
      ELSE CodeExecutionResultEv(res)

\* A line of the child's output: bytes that are not UTF-8, or a text and
\* the JSON document the text is, if it is one.
NotUtf8Line == [utf8 |-> FALSE, text |-> <<>>, json |-> FALSE, doc |-> JNull]
TextLine(text) == [utf8 |-> TRUE, text |-> text, json |-> FALSE, doc |-> JNull]
JsonLine(doc) == [utf8 |-> TRUE, text |-> <<"<json>">>, json |-> TRUE, doc |-> doc]

\* What the reader task does with one line: read_line fails on bytes that
\* are not UTF-8 and the task ends; a blank line and a line serde_json does
\* not parse are skipped; any other line is routed.
read_line(line) ==
  IF ~line.utf8 THEN [stop |-> TRUE, out |-> <<>>]
  ELSE IF Trim(line.text) = <<>> THEN [stop |-> FALSE, out |-> <<>>]
  ELSE IF ~line.json THEN [stop |-> FALSE, out |-> <<>>]
  ELSE [stop |-> FALSE, out |-> <<route_response(line.doc)>>]

\* The reader task (handler.rs:253-353) reads the next line
ReaderStep ==
  /\ Running
  /\ term.reader = "reading"
  /\ term.py_stdout # <<>>
  /\ LET r == read_line(Head(term.py_stdout))
     IN  /\ chan' = chan \o r.out
         /\ term' = [term EXCEPT !.py_stdout = Tail(@),
                                 !.reader = IF r.stop THEN "stopped" ELSE @]
  /\ last' = NoEvent
  /\ UNCHANGED <<app, tasks, exit, store, hist>>

\* What the bootstrap loop answers (handler.rs:167-245)
Response(id, success, output, errors, variables) ==
  JObj([k \in {"id", "result"} |->
          IF k = "id" THEN id
          ELSE JObj([f \in {"success", "output", "errors", "variables", "plots"} |->
                       CASE f = "success" -> JBool(success)
                         [] f = "output" -> JStr(output)
                         [] f = "errors" -> JArr(errors)
                         [] f = "variables" -> variables
                         [] f = "plots" -> JArr(<<>>)])])

NoChildVariables == JObj(<<>>)
ChildVariables ==
  JObj([k \in {"x", "y"} |-> IF k = "x" THEN JStr(<<"int">>) ELSE JStr(<<"str">>)])

ExecuteOutcomes ==
  { [success |-> TRUE, output |-> <<>>, errors |-> <<>>,
     variables |-> NoChildVariables],
    [success |-> TRUE, output |-> <<"<out>">>, errors |-> <<>>,
     variables |-> ChildVariables],
    [success |-> FALSE, output |-> <<>>, errors |-> <<JStr(<<"<traceback>">>)>>,
     variables |-> NoChildVariables] }

VarsOutcomes ==
  { [success |-> TRUE, output |-> <<>>, errors |-> <<>>, variables |-> v] :
      v \in {NoChildVariables, ChildVariables} }

\* The child answers the next request on its stdin
ChildRespond ==
  /\ Running
  /\ term.child = "running"
  /\ term.py_served < Len(term.py_stdin)
  /\ LET req == term.py_stdin[term.py_served + 1]
     IN  \E o \in IF req.method = "execute" THEN ExecuteOutcomes ELSE VarsOutcomes :
           term' = [term EXCEPT
                      !.py_served = @ + 1,
                      !.py_stdout =
                         Append(@, JsonLine(Response(JStr(req.id), o.success, o.output,
                                                     o.errors, o.variables)))]
  /\ last' = NoEvent
  /\ UNCHANGED <<app, chan, tasks, exit, store, hist>>

\* Lines that answer no request: the code the child executes can write to
\* the process's standard output behind the bootstrap's redirection.
StrayLines ==
  { NotUtf8Line,
    TextLine(<<" ">>),
    TextLine(<<"<not json>">>),
    JsonLine(JNum(42)),
    JsonLine(JObj([k \in {"id", "error"} |->
                     IF k = "id" THEN JNull
                     ELSE JObj([f \in {"message"} |-> JStr(<<"<invalid_json>">>)])])),
    JsonLine(Response(JStr(<<"r", "e", "q", "-", "9">>), TRUE, <<"<stray>">>, <<>>,
                      NoChildVariables)),
    JsonLine(JObj([k \in {"id", "result"} |->
                     IF k = "id" THEN JStr(<<"r", "e", "q", "-", "1">>)
                     ELSE JObj([f \in {"output"} |-> JStr(<<"<out>">>)])])),
    JsonLine(JObj([k \in {"id"} |-> JStr(<<"v", "a", "r", "s", "-", "9">>)])) }

MaxStrayLines == 1

ChildStray ==
  /\ Running
  /\ term.child = "running"
  /\ term.nstray < MaxStrayLines
  /\ \E i \in 1..term.py_served : term.py_stdin[i].method = "execute"
  /\ \E line \in StrayLines :
       term' = [term EXCEPT !.nstray = @ + 1, !.py_stdout = Append(@, line)]
  /\ last' = NoEvent
  /\ UNCHANGED <<app, chan, tasks, exit, store, hist>>

\* run_app, TuiEvent::ShowVariables
HandleShowVariables ==
  /\ HeadIs("ShowVariables")
  /\ IF app.interpreter = "Python" /\ term.child # "none"
     THEN LET r == take_request_id(term.req_counter, VarsPrefix)
          IN  term' = [term EXCEPT
                         !.py_stdin = Append(@, [id |-> r.id, method |-> "vars",
                                                 code |-> <<>>]),
                         !.req_counter = r.next]
     ELSE term' = term
  /\ chan' = Tail(chan)
  /\ last' = Head(chan)
  /\ UNCHANGED <<app, tasks, exit, store, hist>>

\* The text run_app shows for a CodeExecutionResult
result_text(res) ==
  LET out == res.output
      errs == IF res.errors = <<>> THEN <<>>
              ELSE (IF out # <<>> THEN <<NL>> ELSE <<>>) \o JoinNL(res.errors)
      text == out \o errs
  IN  IF text = <<>> /\ res.success THEN <<"(ok)">> ELSE text

\* run_app, TuiEvent::CodeExecutionResult
HandleCodeExecutionResult ==
  /\ HeadIs("CodeExecutionResult")
  /\ app' = add_message(app, Msg("Assistant", result_text(Head(chan).res)))
  /\ chan' = Tail(chan)
  /\ last' = Head(chan)
  /\ UNCHANGED <<tasks, term, exit, store, hist>>

\* run_app, TuiEvent::VariablesSnapshot
HandleVariablesSnapshot ==
  /\ HeadIs("VariablesSnapshot")
  /\ app' = add_message(app, Msg("Assistant", Head(chan).text))
  /\ chan' = Tail(chan)
  /\ last' = Head(chan)
  /\ UNCHANGED <<tasks, term, exit, store, hist>>

(***************************************************************************)
(* SpecOverlay: a shell or interpreter session started with a prompt; once *)
(* the first answer has made a last_command the user submits shortcuts and *)
(* texts, cancels, and types under the overlay                             *)
(***************************************************************************)
\* Terminal events the user produces in a session of SpecOverlay
MaxOverlayEvents == 4
\* Events the completion streams of a session of SpecOverlay deliver in all
OverlayStreamEvents == 3

CtrlC == Key("Char", "c", {"CONTROL"})

OverlayKeys ==
  {CharKey(c) : c \in {"e", "d", "p"}}
    \cup {EnterKey, CtrlC, Key("Char", "s", {"CONTROL"})}

OverlayPastes == {<<"e", "x", "i", "t", "(", ")">>, <<" ", "e", NL>>}

InitOverlay ==
  InitWith({"temp"}, {NoStore},
           {ShellMode, [ShellMode EXCEPT !.model = "fake"],
            [ShellMode EXCEPT !.allow_interaction = FALSE], PythonMode},
           {Prompt(<<"p">>)})

NextOverlay ==
  \/ InitPromptSend
  \/ StartPython
  \/ /\ app.last_command # <<>>
     /\ \/ \E key \in OverlayKeys : PollKey(key, MaxOverlayEvents)
        \/ \E content \in OverlayPastes : PollPaste(content, MaxOverlayEvents)
  \/ ClockTick
  \/ LoopStep
  \/ HandlePaste
  \/ HandleExecuteCommand
  \/ HandleExecutionResult
  \/ HandleDescribeCommand
  \/ HandleDescriptionEvent
  \/ HandleExecuteCode
  \/ \E t \in 1..(1 + MaxOverlayEvents \div 2) :
       \/ TaskStep(t, OverlayStreamEvents)
       \/ ExecTaskStep(t)
       \/ DescribeTaskStep(t)

SpecOverlay == InitOverlay /\ [][NextOverlay]_vars

(***************************************************************************)
(* SpecInterp: an interpreter session started with a prompt; once the      *)
(* first answer has made a last_command the user runs it, asks for the     *)
(* variables, and quits; the child answers and writes stray lines          *)
(***************************************************************************)
\* Terminal events the user produces in a session of SpecInterp
MaxInterpKeys == 3
\* Events the completion streams of a session of SpecInterp deliver in all
InterpStreamEvents == 3

InterpKeys ==
  {CharKey("e"), EnterKey, Key("Char", "l", {"CONTROL"}), Key("Char", "d", {"CONTROL"})}

StoredHistory == <<SystemPrompt, Msg("User", <<"<stored>">>)>>

RMode == [ChatMode EXCEPT !.interpreter = "R"]

InitInterp ==
  InitWith({"temp", "s1"}, {[exists |-> TRUE, messages |-> StoredHistory]},
           {PythonMode, RMode}, {Prompt(<<"p">>)})

NextInterp ==
  \/ InitPromptSend
  \/ StartPython
  \/ /\ app.last_command # <<>>
     /\ \E key \in InterpKeys : PollKey(key, MaxInterpKeys)
  \/ LoopStep
  \/ HandleExecuteCode
  \/ HandleShowVariables
  \/ HandleCodeExecutionResult
  \/ HandleVariablesSnapshot
  \/ ChildRespond
  \/ ChildStray
  \/ ReaderStep
  \/ \E t \in 1..(1 + MaxInterpKeys \div 2) : TaskStep(t, InterpStreamEvents)

SpecInterp == InitInterp /\ [][NextInterp]_vars

(***************************************************************************)
(* Requests, the queue and the streaming tasks                             *)
(***************************************************************************)
InFlight(t) == tasks[t].pc # "finished"

\* Task t took the error branch: it sent a formatted error message.
Failed(t) ==
  \E i \in DOMAIN tasks[t].emitted :
    /\ tasks[t].emitted[i].kind = "Content"
    /\ \E err \in StreamErrors :
         tasks[t].emitted[i].text = format_stream_error_message(err)

\* This step is the loop handling the UserInput event at the head of chan.
UserInputStep == HeadIs("UserInput") /\ last' = Head(chan)

PosIn(seq, x) == CHOOSE i \in DOMAIN seq : seq[i] = x

\* C1: in every reachable state at most one streaming task has still events
\* to emit, so no task is spawned while an earlier one is unfinished.
C1_AtMostOneInFlight ==
  Cardinality({t \in DOMAIN tasks : InFlight(t)}) <= 1

\* Two requests in flight neither of which has delivered anything yet.
TwoStreamsOpen ==
  \E t, u \in DOMAIN tasks :
    /\ t < u
    /\ tasks[t].emitted = <<>>
    /\ tasks[u].emitted = <<>>

\* C2 as stated: a UserInput handled while streaming is appended to the queue
\* and history, the streaming flag and the response buffer stay as they are
\* and no task is spawned; handled while not streaming, the queue stays as it
\* is and the input is dispatched to a new task.
C2_QueuedOrDispatched ==
  [][UserInputStep =>
       IF app.is_receiving_response
       THEN /\ app'.message_queue = Append(app.message_queue, Head(chan).text)
            /\ app'.messages = app.messages
            /\ app'.is_receiving_response = app.is_receiving_response
            /\ app'.current_response = app.current_response
            /\ tasks' = tasks
       ELSE /\ app'.message_queue = app.message_queue
            /\ Len(tasks') = Len(tasks) + 1
            /\ tasks'[Len(tasks')].input = Head(chan).text]_vars

\* C2, amended: as C2, but while not streaming only an input with a
\* non-whitespace character is dispatched; a blank one is dropped, and the
\* App and the tasks stay as they are.
C2_QueuedOrDispatchedUnlessBlank ==
  [][UserInputStep =>
       IF app.is_receiving_response
       THEN /\ app'.message_queue = Append(app.message_queue, Head(chan).text)
            /\ app'.messages = app.messages
            /\ app'.is_receiving_response = app.is_receiving_response
            /\ app'.current_response = app.current_response
            /\ tasks' = tasks
       ELSE IF Trim(Head(chan).text) = <<>>
       THEN app' = app /\ tasks' = tasks
       ELSE /\ app'.message_queue = app.message_queue
            /\ app'.messages = Append(app.messages, Msg("User", Head(chan).text))
            /\ app'.is_receiving_response
            /\ Len(tasks') = Len(tasks) + 1
            /\ tasks'[Len(tasks')].input = Head(chan).text]_vars

\* Of three inputs the blank first one was dropped, the second dispatched,
\* and the third, handled in the last step, is queued behind it.
C2_Witness ==
  /\ last.type = "UserInput"
  /\ app.is_receiving_response
  /\ app.message_queue = <<last.text>>
  /\ Len(tasks) = 1
  /\ Len(hist.sent) = 3
  /\ Trim(hist.sent[1]) = <<>>
  /\ tasks[1].input = hist.sent[2]

\* C3: the completions of the session never drain more queued items than
\* there are requests that completed: one completion, at most one item.
C3_OneDrainPerCompletion == hist.dequeued <= Cardinality(hist.completed)

\* C4: requests are dispatched in the order their UserInput events were
\* produced.
C4_DispatchedInSubmitOrder ==
  \A i, j \in DOMAIN tasks :
    i < j => PosIn(hist.sent, tasks[i].input) < PosIn(hist.sent, tasks[j].input)

\* C5: after a request is dispatched, unless the session ends, the loop
\* eventually has handled its completion and is not streaming, and after the
\* completion it eventually handles the ProcessNextMessage that takes the
\* next queued message.
C5_IdleThenNextMessage ==
  \A k \in 1..LiveRequests :
    /\ (Len(tasks) >= k)
         ~> (exit # "running" \/ (k \in hist.completed /\ ~app.is_receiving_response))
    /\ (k \in hist.completed) ~> (exit # "running" \/ k \in hist.pnm)

\* The first request failed, its completion was handled, and the message
\* queued behind it was taken and dispatched.
C5_Witness ==
  /\ Len(tasks) = 2
  /\ Failed(1)
  /\ 1 \in hist.pnm
  /\ hist.dequeued = 1
  /\ tasks[2].input = hist.sent[2]

\* C6: what a failed task sends from the error on is the formatted message
\* and then one Done, nothing more.
C6_ErrorSendsContentThenDone ==
  \A t \in DOMAIN tasks :
    Failed(t) =>
      LET e == tasks[t].emitted
          tail == SubSeq(e, tasks[t].n + 1, Len(e))
      IN  [i \in DOMAIN tail |-> tail[i].kind]
            \in {<<"Content">>, <<"Content", "Done">>}

(***************************************************************************)
(* The editor and the composer                                             *)
(***************************************************************************)
\* This step is the loop handling the key press `key` at the head of chan
\* with no popup open, so that the key reaches the composer.
ComposerKeyStep(key) ==
  /\ HeadIs("Key")
  /\ Head(chan).key = key
  /\ last' = Head(chan)
  /\ ~is_popup_shown(app)

Count(pp, ph) == Cardinality({i \in DOMAIN pp : pp[i].placeholder = ph})

\* The whole token ph that starts at character s of the line is removed with
\* one of its mappings, and the cursor is left where the token started.
TokenRemoved(s, ph) ==
  /\ app'.input = Take(app.input, s) \o Skip(app.input, s + Len(ph))
  /\ app'.input_cursor = s
  /\ Count(app'.pending_pastes, ph) = Count(app.pending_pastes, ph) - 1

\* C7: every insert_char, backspace, delete or cursor move on an editor
\* that started fresh leaves input_cursor within 0..=char_count(input) and
\* does not panic; a backspace with characters before the cursor removes
\* exactly the character before it, a delete with characters after the
\* cursor removes exactly the character at it, otherwise they remove nothing.
C7_EditsAreCharSafe ==
  [][/\ ~app'.panicked
     /\ app'.input_cursor \in 0..Len(app'.input)
     /\ last' = EditOp("backspace") =>
          IF app.input_cursor > 0
          THEN /\ app'.input = Take(app.input, app.input_cursor - 1)
                                 \o Skip(app.input, app.input_cursor)
               /\ app'.input_cursor = app.input_cursor - 1
          ELSE app'.input = app.input /\ app'.input_cursor = 0
     /\ last' = EditOp("delete") =>
          IF app.input_cursor < Len(app.input)
          THEN /\ app'.input = Take(app.input, app.input_cursor)
                                 \o Skip(app.input, app.input_cursor + 1)
               /\ app'.input_cursor = app.input_cursor
          ELSE app'.input = app.input /\ app'.input_cursor = app.input_cursor]_vars

\* A backspace between two multi-byte characters and an ASCII one has just
\* removed the three-byte character before the cursor.
C7_Witness ==
  /\ last = EditOp("backspace")
  /\ app.input = <<E_ACUTE, "a">>
  /\ app.input_cursor = 1
  /\ term.nkeys = MaxEdits

\* C8: in every reachable composer state input_cursor is a character index
\* of the current line, 0..=char_count(input).
C8_CursorIsCharIndex == app.input_cursor \in 0..Len(app.input)

\* C9: no editor operation panics in any reachable composer state.
C9_NoEditorPanic == ~app.panicked

\* C10: for every placeholder token of the current line that has a mapping,
\* Backspace with the cursor at the token's end and Delete with the cursor
\* at the token's start remove the whole token and its mapping in that step.
C10_TokenRemovedWhole ==
  [][\A i \in DOMAIN app.pending_pastes :
       \A s \in 0..Len(app.input) :
         LET ph == app.pending_pastes[i].placeholder
         IN  IsPrefixAt(app.input, ph, s) =>
               /\ (ComposerKeyStep(Key("Backspace", "", {}))
                     /\ app.input_cursor = s + Len(ph)) => TokenRemoved(s, ph)
               /\ (ComposerKeyStep(Key("Delete", "", {}))
                     /\ app.input_cursor = s) => TokenRemoved(s, ph)]_vars

(***************************************************************************)
(* Paste placeholders                                                      *)
(***************************************************************************)
\* This step is the loop handling the Paste event at the head of chan.
PasteStep == HeadIs("Paste") /\ last' = Head(chan)

\* The characters i+1..j of the line
Mid(s, i, j) == SubSeq(s, i + 1, j)

\* C11: when a paste of more than 200 characters is handled with an empty
\* composer, expand_placeholders_for_submit called on the resulting state
\* returns exactly the pasted string and leaves pending_pastes empty.
C11_LargePasteRoundTrip ==
  [][(/\ PasteStep
      /\ get_input_text(app) = <<>>
      /\ Len(Head(chan).text) > LARGE_PASTE_CHAR_THRESHOLD)
       => /\ expand_placeholders_for_submit(app').text = Head(chan).text
          /\ expand_placeholders_for_submit(app').app.pending_pastes = <<>>]_vars

\* C12: a line holds one token, which occurs once and has the one mapping,
\* and a large paste is handled with the cursor at c.  A submit of the
\* resulting state returns the line with the new token replaced by the new
\* paste and the old token, if the paste did not split it, by the old paste,
\* each where it stands, and leaves pending_pastes empty.
C12_EachTokenByItsPaste ==
  [][(/\ PasteStep
      /\ Len(Head(chan).text) > LARGE_PASTE_CHAR_THRESHOLD
      /\ app.input_mode = "Normal"
      /\ app.input_cursor \in 0..Len(app.input)
      /\ Len(app.pending_pastes) = 1
      /\ Cardinality({k \in 0..Len(app.input) :
            IsPrefixAt(app.input, app.pending_pastes[1].placeholder, k)}) = 1)
       => LET e == app.pending_pastes[1]
              n == Len(e.placeholder)
              s == CHOOSE k \in 0..Len(app.input) :
                     IsPrefixAt(app.input, e.placeholder, k)
              c == app.input_cursor
              line == app.input
              pasted == Head(chan).text
          IN  /\ expand_placeholders_for_submit(app').text =
                   IF c <= s
                   THEN Mid(line, 0, c) \o pasted \o Mid(line, c, s) \o e.actual
                          \o Mid(line, s + n, Len(line))
                   ELSE IF c >= s + n
                   THEN Mid(line, 0, s) \o e.actual \o Mid(line, s + n, c)
                          \o pasted \o Mid(line, c, Len(line))
                   ELSE Mid(line, 0, c) \o pasted \o Mid(line, c, Len(line))
              /\ expand_placeholders_for_submit(app').app.pending_pastes = <<>>]_vars

\* C13: in every reachable composer state each entry of pending_pastes has
\* its placeholder verbatim in get_input_text().
C13_NoStaleMapping ==
  \A i \in DOMAIN app.pending_pastes :
    StrContains(get_input_text(app), app.pending_pastes[i].placeholder)

\* C14: in every reachable composer state a second cleanup_pending_pastes
\* changes nothing after a first, and the first changes nothing but
\* pending_pastes.
C14_CleanupIdempotent ==
  /\ cleanup_pending_pastes(cleanup_pending_pastes(app)) = cleanup_pending_pastes(app)
  /\ cleanup_pending_pastes(app) =
       [app EXCEPT !.pending_pastes = cleanup_pending_pastes(app).pending_pastes]

\* Two mappings whose tokens the composer no longer holds: the first
\* cleanup removes them both.
C14_Witness ==
  /\ Len(app.pending_pastes) = 2
  /\ get_input_text(app) = <<>>
  /\ cleanup_pending_pastes(app).pending_pastes = <<>>

(***************************************************************************)
(* Cancel, the overlay, descriptions and shortcuts                         *)
(***************************************************************************)
\* This step is the loop handling the event of the given type at the head
\* of chan.
EventStep(type) == HeadIs(type) /\ last' = Head(chan)

\* This step is the loop handling the key press `key`.
KeyStep(key) == EventStep("Key") /\ Head(chan).key = key

\* The last cancel that was recorded is at most the timeout old.
InCancelWindow == app.last_ctrl_c_time \in 0..DOUBLE_CTRL_C_TIMEOUT

\* A cancel has cleared the composer and nothing else.
OnlyCleared ==
  /\ exit' = "running"
  /\ app' = [app EXCEPT !.input = <<>>, !.input_cursor = 0,
                        !.multiline_buffer = <<>>, !.input_mode = "Normal",
                        !.history_index = NoneIdx, !.last_ctrl_c_time = 0]
  /\ chan' = Tail(chan)
  /\ tasks' = tasks

\* C15 as stated: a Ctrl+C processed at most 500 ms after the cancel
\* recorded before it ends the session, whatever the state.
C15_DoubleCancelQuits ==
  [][(KeyStep(CtrlC) /\ InCancelWindow) => exit' = "quit"]_vars

\* C15, amended: with no overlay shown, a Ctrl+C processed at most 500 ms
\* after the cancel recorded before it ends the session, and any other
\* Ctrl+C is recorded as the first of a pair; with an overlay shown a Ctrl+C
\* neither ends the session nor is recorded.
C15_DoubleCancelQuitsNoOverlay ==
  [][KeyStep(CtrlC) =>
       IF app.popup_state # PopupNone
       THEN exit' = "running" /\ app'.last_ctrl_c_time = app.last_ctrl_c_time
       ELSE IF InCancelWindow THEN exit' = "quit"
       ELSE exit' = "running" /\ app'.last_ctrl_c_time = 0]_vars

\* A Ctrl+C has ended the session.
C15_Witness == exit = "quit" /\ last = KeyEv(CtrlC)

\* C16 as stated: a Ctrl+C that no recorded cancel precedes by at most
\* 500 ms does not end the session; it clears line, cursor, multi-line
\* buffer, input mode and history cursor and changes nothing else.
C16_SingleCancelOnlyClears ==
  [][(KeyStep(CtrlC) /\ ~InCancelWindow) => OnlyCleared]_vars

\* C16, amended: as C16, for a Ctrl+C processed with no overlay shown.
C16_SingleCancelOnlyClearsNoOverlay ==
  [][(KeyStep(CtrlC) /\ ~InCancelWindow /\ app.popup_state = PopupNone)
       => OnlyCleared]_vars

\* The fourth key of the session was a Ctrl+C that left the session running
\* with an empty composer, while a command typed earlier executes.
C16_Witness ==
  /\ last = KeyEv(CtrlC)
  /\ exit = "running"
  /\ app.last_ctrl_c_time = 0
  /\ app.input = <<>>
  /\ term.nkeys = MaxOverlayEvents
  /\ \E t \in DOMAIN tasks : tasks[t].pc = "executing"

\* C17: a key processed while an overlay is shown closes the overlay and
\* does nothing else: the App is otherwise unchanged, no event is sent, no
\* task is spawned and the session goes on.
C17_KeyUnderOverlayOnlyDismisses ==
  [][(EventStep("Key") /\ app.popup_state # PopupNone) =>
       /\ app' = [app EXCEPT !.popup_state = PopupNone]
       /\ chan' = Tail(chan)
       /\ tasks' = tasks
       /\ exit' = "running"]_vars

\* Enter was pressed on a composer that holds exit(), and the session runs
\* on with the text in place: the key closed an overlay.
C17_Witness ==
  /\ last = KeyEv(EnterKey)
  /\ app.input = <<"e", "x", "i", "t", "(", ")">>
  /\ app.popup_state = PopupNone
  /\ exit = "running"

\* C18: a key or paste processed while an overlay is shown leaves the
\* composer (line, cursor, multi-line buffer, mode) as it is.
C18_NoInputUnderOverlay ==
  [][((EventStep("Key") \/ EventStep("Paste")) /\ app.popup_state # PopupNone)
       => /\ app'.input = app.input
          /\ app'.input_cursor = app.input_cursor
          /\ app'.multiline_buffer = app.multiline_buffer
          /\ app'.input_mode = app.input_mode]_vars

\* What the description events do to the overlay
DescriptionEventsStream ==
  /\ EventStep("StartStreamingDescription") =>
       app' = [app EXCEPT !.popup_state =
                 [kind |-> "StreamingDescription", command |-> Head(chan).text,
                  current_description |-> <<>>, is_loading |-> TRUE]]
  /\ EventStep("DescriptionContent") =>
       IF app.popup_state.kind = "StreamingDescription"
       THEN app' = [app EXCEPT !.popup_state.current_description =
                                  @ \o Head(chan).text,
                               !.popup_state.is_loading = FALSE]
       ELSE app' = app
  /\ EventStep("DescriptionStreamFinished") =>
       IF app.popup_state.kind = "StreamingDescription"
       THEN app' = [app EXCEPT !.popup_state =
                      [kind |-> "Description",
                       command |-> app.popup_state.command,
                       description |-> app.popup_state.current_description]]
       ELSE app' = app

\* A describe request opens the streaming overlay before any delta of its
\* description: the event that opens it is sent, the App is unchanged, and
\* the task that will send the deltas is spawned.
DescribeOpensStream ==
  /\ app' = app
  /\ chan' = Append(Tail(chan),
                    [type |-> "StartStreamingDescription", text |-> Head(chan).text])
  /\ Len(tasks') = Len(tasks) + 1
  /\ tasks'[Len(tasks')].pc = "describing"

\* C19 as stated: every describe request opens the streaming overlay, and
\* the description events act on it as DescriptionEventsStream says.
C19_DescriptionStreamsIntoOverlay ==
  [][/\ EventStep("DescribeCommand") => DescribeOpensStream
     /\ DescriptionEventsStream]_vars

\* C19, amended: as C19 for a model other than "fake"; with the model
\* "fake" a describe request shows the static Description overlay of the
\* command at once, and sends and spawns nothing.
C19_DescriptionStreamsUnlessFake ==
  [][/\ EventStep("DescribeCommand") =>
          IF app.model # "fake" THEN DescribeOpensStream
          ELSE /\ app'.popup_state.kind = "Description"
               /\ app'.popup_state.command = Head(chan).text
               /\ chan' = Tail(chan)
               /\ tasks' = tasks
     /\ DescriptionEventsStream]_vars

\* The completion signal has made a static overlay of two deltas, the
\* second one the failure message, in the order they arrived.
C19_Witness ==
  /\ last.type = "DescriptionStreamFinished"
  /\ app.popup_state.kind = "Description"
  /\ app.popup_state.command = app.last_command
  /\ \E c \in StreamChunks :
       app.popup_state.description =
         c \o <<"<Failed to generate description for: >">> \o app.last_command

\* The letter shortcuts apply to the text a submit has expanded.
IsShortcut(text) ==
  /\ Trim(text) \in {<<"e">>, <<"r">>, <<"d">>, <<"p">>}
  /\ app.last_command # <<>>
  /\ (app.is_shell_mode /\ app.allow_interaction) \/ app.interpreter # "None"

ComposerCleared ==
  /\ app'.input = <<>>
  /\ app'.input_cursor = 0
  /\ app'.multiline_buffer = <<>>
  /\ app'.input_mode = "Normal"

\* A submit that acted as a shortcut, or sent the text as the one UserInput
SubmitEffect(text) ==
  IF IsShortcut(text)
  THEN /\ UserInputsOf(chan') = UserInputsOf(Tail(chan))
       /\ app'.input_history = app.input_history
       /\ tasks' = tasks
       /\ ComposerCleared
  ELSE IF Trim(text) # <<>>
  THEN /\ chan' = Append(Tail(chan), UserInputEv(text))
       /\ ComposerCleared
  ELSE chan' = Tail(chan) /\ ComposerCleared

C30_StatusReflectsQueue ==
  [][Len(app'.message_queue) # Len(app.message_queue)
       => app'.status_message # app.status_message]_vars

(***************************************************************************)
(* The interpreter bridge and the session store                            *)
(***************************************************************************)
AssistantCount(a) ==
  LET isassistant(m) == m.role = "Assistant"
  IN  Len(SelectSeq(a.messages, isassistant))

\* This step is the loop handling a stream completion.
DoneStep == EventStep("LlmStream") /\ Head(chan).kind = "Done"

\* C21: a step adds an Assistant message to the history only if it handles
\* a stream completion with accumulated content, and a completion handled
\* with no accumulated content leaves the history as it is.
C21_AssistantOnlyOnDone ==
  [][/\ AssistantCount(app') > AssistantCount(app)
          => DoneStep /\ app.current_response # <<>>
     /\ (DoneStep /\ app.current_response = <<>>) => app'.messages = app.messages]_vars

\* C22: once the session has ended, by a quit or by an error returned from
\* the loop, the interpreter process is not running.
C22_ChildKilledAtExit ==
  exit \in {"quit", "error", "panic"} => term.child # "running"

\* C23: if the interpreter failed to start, the session runs and an
\* Assistant message reports the failure.
C23_SpawnFailureIsInline ==
  term.child = "failed" => exit = "running" /\ AssistantCount(app) > 0

\* The number an id ends with
DigitValue(c) == CHOOSE d \in 0..9 : Digit(d) = c

RECURSIVE ParseUsize(_)
ParseUsize(digits) ==
  IF digits = <<>> THEN 0
  ELSE 10 * ParseUsize(SubSeq(digits, 1, Len(digits) - 1))
         + DigitValue(digits[Len(digits)])

NumericPart(id) ==
  LET dash == CHOOSE i \in DOMAIN id : id[i] = "-"
  IN  ParseUsize(SubSeq(id, dash + 1, Len(id)))

\* C24: the ids of the requests written to the interpreter are pairwise
\* distinct and their numbers increase with the order of sending, execute
\* and vars requests together.
C24_RequestIdsIncrease ==
  \A i, j \in DOMAIN term.py_stdin :
    i < j => /\ term.py_stdin[i].id # term.py_stdin[j].id
             /\ NumericPart(term.py_stdin[i].id) < NumericPart(term.py_stdin[j].id)

\* A vars request was sent after an execute request.
C24_Witness ==
  \E i, j \in DOMAIN term.py_stdin :
    /\ i < j
    /\ term.py_stdin[i].method = "execute"
    /\ term.py_stdin[j].method = "vars"

\* This step is the reader task reading the line at the head of py_stdout.
ReaderReads ==
  /\ term.py_stdout # <<>>
  /\ term'.py_stdout = Tail(term.py_stdout)

Line == Head(term.py_stdout)

\* The line is a JSON document.
Parsed == Line.utf8 /\ Trim(Line.text) # <<>> /\ Line.json

\* The id of a parsed line, empty if it has none that is a string
IdOf(doc) ==
  IF doc.t = "obj" /\ "id" \in DOMAIN doc.f /\ doc.f["id"].t = "str"
  THEN doc.f["id"].s ELSE <<>>

\* The variables of a parsed line that have a string for their type
VariablesOf(doc) ==
  IF /\ doc.t = "obj" /\ "result" \in DOMAIN doc.f
     /\ doc.f["result"].t = "obj" /\ "variables" \in DOMAIN doc.f["result"].f
     /\ doc.f["result"].f["variables"].t = "obj"
  THEN LET o == doc.f["result"].f["variables"].f
       IN  [k \in {n \in DOMAIN o : o[n].t = "str"} |-> o[k].s]
  ELSE <<>>

\* The listing of the variables, names in ascending order
Listing(variables) ==
  LET has(k) == k \in DOMAIN variables
      names == SelectSeq(VarNames, has)
      F[i \in 0..Len(names)] ==
        IF i = 0 THEN <<>>
        ELSE F[i - 1] \o <<"- ", names[i], ": ">> \o variables[names[i]] \o <<NL>>
  IN  IF names = <<>> THEN <<"(none)", NL>> ELSE F[Len(names)]

IsVarsId(id) == Len(id) >= 5 /\ SubSeq(id, 1, 5) = <<"v", "a", "r", "s", "-">>

\* C25: the reader sends exactly one event for a parsed line: a
\* VariablesSnapshot with the sorted listing of the variables if the id
\* starts with vars-, a CodeExecutionResult otherwise.
C25_OneEventPerParsedLine ==
  [][(ReaderReads /\ Parsed) =>
       /\ Len(chan') = Len(chan) + 1
       /\ SubSeq(chan', 1, Len(chan)) = chan
       /\ IF IsVarsId(IdOf(Line.doc))
          THEN chan'[Len(chan')] =
                 [type |-> "VariablesSnapshot",
                  text |-> <<"Variables:", NL>> \o Listing(VariablesOf(Line.doc))]
          ELSE chan'[Len(chan')].type = "CodeExecutionResult"]_vars

\* A snapshot listing x before y is in the channel.
C25_Witness ==
  \E i \in DOMAIN chan :
    /\ chan[i].type = "VariablesSnapshot"
    /\ chan[i].text = <<"Variables:", NL, "- ", "x", ": ", "int", NL,
                        "- ", "y", ": ", "str", NL>>

SentIds == {term.py_stdin[i].id : i \in DOMAIN term.py_stdin}

\* C26: a parsed line whose id is the id of no request the session has sent
\* produces no event.
C26_UnmatchedIdDropped ==
  [][(ReaderReads /\ Parsed /\ IdOf(Line.doc) \notin SentIds) => chan' = chan]_vars

\* C27: a line that is blank or is not JSON produces no event, changes
\* nothing of the session and does not stop the reader task.
C27_MalformedLineSkipped ==
  [][(ReaderReads /\ ~Parsed) =>
       /\ chan' = chan
       /\ app' = app
       /\ term'.reader = "reading"]_vars

\* The line lacks the fields of a response: it has neither a result nor an
\* error, or its result has no boolean success.
LacksFields(doc) ==
  \/ doc.t # "obj"
  \/ "result" \notin DOMAIN doc.f /\ "error" \notin DOMAIN doc.f
  \/ /\ "result" \in DOMAIN doc.f
     /\ \/ doc.f["result"].t # "obj"
        \/ "success" \notin DOMAIN doc.f["result"].f
        \/ doc.f["result"].f["success"].t # "bool"

\* The reader has sent one event, a CodeExecutionResult that reports a
\* failure.
FailureDelivered ==
  /\ Len(chan') = Len(chan) + 1
  /\ chan'[Len(chan')].type = "CodeExecutionResult"
  /\ ~chan'[Len(chan')].res.success

\* C28 as stated: a line of text that is not JSON, or is JSON and lacks the
\* fields of a response, makes the reader deliver a failure result.
C28_MalformedYieldsFailure ==
  [][(ReaderReads /\ Line.utf8 /\ Trim(Line.text) # <<>>
        /\ (~Line.json \/ LacksFields(Line.doc)))
       => FailureDelivered]_vars

\* C28, amended: a JSON line that lacks the fields of a response, or has an
\* error and no result, and whose id does not start with vars-, makes the
\* reader deliver a failure result; a line that is not JSON produces no
\* event; in both cases the reader goes on.
C28_MissingFieldsYieldFailure ==
  [][(ReaderReads /\ Line.utf8 /\ Trim(Line.text) # <<>>) =>
       /\ term'.reader = "reading"
       /\ IF ~Line.json THEN chan' = chan
          ELSE (/\ ~IsVarsId(IdOf(Line.doc))
                /\ \/ LacksFields(Line.doc)
                   \/ "result" \notin DOMAIN Line.doc.f)
                 => FailureDelivered]_vars

\* A failure result made for a line with neither result nor error is in the
\* channel.
C28_Witness ==
  \E i \in DOMAIN chan :
    /\ chan[i].type = "CodeExecutionResult"
    /\ ~chan[i].res.success
    /\ chan[i].res.errors = <<<<"<invalid_response>">>>>

PlainKeyHandled(code) ==
  /\ last # NoEvent
  /\ last.type = "Key"
  /\ last.key.code = code
  /\ last.key.mods = {}

Consuming(t) == tasks[t].pc \in {"streaming", "err_content_sent"}

\* C32: in every reachable state in which the streaming task of a dispatched
\* request is still consuming its stream, is_receiving_response is true.
C32_FlagWhileConsuming ==
  \A t \in DOMAIN tasks : Consuming(t) => app.is_receiving_response

\* The content deltas among the events a streaming task sent, in order
RECURSIVE DeltasOf(_)
DeltasOf(emitted) ==
  IF emitted = <<>> THEN <<>>
  ELSE (IF Head(emitted).kind = "Content" THEN Head(emitted).text ELSE <<>>)
         \o DeltasOf(Tail(emitted))

\* C33: when the loop handles the completion of a request, the assistant
\* message it appends to the history is the concatenation of the content
\* deltas of that request, in order; a request without deltas, and a
\* completion the loop sees again, append nothing.
C33_MessageIsOwnDeltas ==
  [][DoneStep =>
       LET r == Head(chan).req
           d == DeltasOf(tasks[r].emitted)
       IN  app'.messages =
             IF r \notin hist.completed /\ d # <<>>
             THEN Append(app.messages, Msg("Assistant", d))
             ELSE app.messages]_vars

(***************************************************************************)
(* SpecQueue: the fair session of SpecLive started with an initial prompt  *)
(* of one space, in which the user submits up to two texts                 *)
(***************************************************************************)
\* Terminal events the user produces in a session of SpecQueue
QueueKeys == 4

\* The blank initial prompt is never dispatched: one request per two keys
QueueRequests == QueueKeys \div 2

QueueEvents == QueueRequests * (MaxItems + 3)

InitQueue == InitWith({"s1"}, {NoStore}, {ChatMode}, {Prompt(<<" ">>)})

NextQueue ==
  \/ InitPromptSend
  \/ PollSessionKey(QueueKeys)
  \/ LoopStep
  \/ \E t \in 1..QueueRequests : TaskStep(t, QueueEvents)

SpecQueue ==
  /\ InitQueue
  /\ [][NextQueue]_vars
  /\ WF_vars(LoopStep)
  /\ \A t \in 1..QueueRequests : WF_vars(TaskStep(t, QueueEvents))

\* The texts the user of a session can submit: every one at most once
UserTexts ==
  {<<c>> : c \in SessionChars}
    \cup {s \in SessionChars \X SessionChars : s[1] # s[2]}

Queued(m) == \E i \in DOMAIN app.message_queue : app.message_queue[i] = m

Dispatched(m) == \E t \in DOMAIN tasks : tasks[t].input = m

\* C34: a text the user submitted that is in message_queue is eventually
\* dequeued and dispatched to the model, unless the session ends first.
C34_QueuedIsDispatched ==
  \A m \in UserTexts : Queued(m) ~> (exit # "running" \/ Dispatched(m))

\* C35: when the loop handles the completion of a request whose stream
\* failed, last_command is left as it was: the formatted error message is
\* not stored as the command or code the shortcuts replay.
C35_FailureKeepsLastCommand ==
  [][(DoneStep /\ Failed(Head(chan).req))
       => app'.last_command = app.last_command]_vars

(***************************************************************************)
(* SpecHistory: the session of SpecLive, without its fairness, resumed     *)
(* from a stored chat whose history is as long as the window add_message   *)
(* keeps                                                                   *)
(***************************************************************************)
\* A stored chat of max_display_messages messages: the system message, then
\* the user's and the assistant's in turn
LongHistory ==
  [i \in 1..max_display_messages |->
     IF i = 1 THEN SystemPrompt
     ELSE Msg(IF i % 2 = 0 THEN "User" ELSE "Assistant", <<"<stored>">>)]

InitHistory ==
  InitWith({"s1"}, {NoStore, [exists |-> TRUE, messages |-> LongHistory]},
           {ChatMode}, {Prompt(<<"p">>)})

SpecHistory == InitHistory /\ [][NextLive]_vars

\* C36: the system message that starts the history is the first message of
\* app.messages in every state, so it is the first message of every request
\* sent to the model and of every history session.write stores.
C36_SystemMessageFirst ==
  /\ app.messages # <<>>
  /\ Head(app.messages) = SystemPrompt
  /\ \A t \in DOMAIN tasks : Head(tasks[t].request) = SystemPrompt
  /\ store.exists => Head(store.messages) = SystemPrompt

(***************************************************************************)
(* SpecDescribe: a shell session in which the user asks for descriptions   *)
(* of the command the model generated, and dismisses the overlay           *)
(***************************************************************************)
\* Terminal events the user produces in a session of SpecDescribe
MaxDescribeEvents == 5

DescribeKeys == {CharKey("d"), EnterKey}

\* The request of the initial prompt and one describe request per three keys
DescribeRequests == 1 + (MaxDescribeEvents + 1) \div 3

InitDescribe == InitWith({"temp"}, {NoStore}, {ShellMode}, {Prompt(<<"p">>)})

NextDescribe ==
  \/ InitPromptSend
  \/ /\ app.last_command # <<>>
     /\ \E key \in DescribeKeys : PollKey(key, MaxDescribeEvents)
  \/ LoopStep
  \/ HandleDescribeCommand
  \/ HandleDescriptionEvent
  \/ \E t \in 1..DescribeRequests :
       \/ TaskStep(t, OverlayStreamEvents)
       \/ DescribeTaskStep(t)

SpecDescribe == InitDescribe /\ [][NextDescribe]_vars

(***************************************************************************)
(* Claims: the overlay of a describe request                               *)
(***************************************************************************)
\* The overlay shown was opened by the describe request started last, and
\* the task of that request has sent no event yet: every
\* StartStreamingDescription was handled, so the overlay is that of the last
\* DescribeCommand, whose task is the last one spawned.
OwnerSilent ==
  /\ app.popup_state.kind = "StreamingDescription"
  /\ \A i \in DOMAIN chan : chan[i].type # "StartStreamingDescription"
  /\ tasks # <<>>
  /\ tasks[Len(tasks)].pc = "describing"
  /\ tasks[Len(tasks)].n = 0

\* C37: a description delta or a completion signal handled while the request
\* that opened the overlay has sent none is an event of an earlier describe
\* request, and leaves the overlay as it is.
C37_OnlyOwnEvents ==
  [][(/\ OwnerSilent
      /\ \/ EventStep("DescriptionContent")
         \/ EventStep("DescriptionStreamFinished"))
       => app'.popup_state = app.popup_state]_vars

(***************************************************************************)
(* Claims: pastes, the mode and the buffer of the composer                 *)
(***************************************************************************)
\* The composed text before the cursor and after it
TextBeforeCursor(a) ==
  get_input_text([a EXCEPT !.input = Take(a.input, a.input_cursor)])

TextAfterCursor(a) == Skip(a.input, a.input_cursor)

\* C38: a paste handled with the cursor inside the line leaves the composed
\* text made of the text before the cursor, the text app_paste_text inserts
\* for the paste (the paste or its placeholder), and the text after the
\* cursor, in Normal and in MultiLine mode.
C38_PasteInsertsAtCursor ==
  [][(/\ PasteStep
      /\ ~app.panicked
      /\ app.input_cursor \in 0..Len(app.input))
       => get_input_text(app') =
            TextBeforeCursor(app) \o paste_display(Head(chan).text)
              \o TextAfterCursor(app)]_vars

\* C39: in every state of the composer, input_mode = Normal implies that
\* multiline_buffer is empty, so get_input_text drops no buffered line.
C39_NormalHasNoBuffer ==
  app.input_mode = "Normal" => app.multiline_buffer = <<>>

\* The user wrote two lines and left MultiLine mode with Ctrl+M: the lines
\* are joined into the line and the buffer is empty.
C39_Witness ==
  /\ last # NoEvent
  /\ last.type = "Key"
  /\ last.key = Key("Char", "m", {"CONTROL"})
  /\ app.input_mode = "Normal"
  /\ app.multiline_buffer = <<>>
  /\ \E i \in DOMAIN app.input : app.input[i] = NL

\* C40: a Backspace key handled in MultiLine mode with the cursor at 0 and
\* lines in the buffer joins the last buffered line with the line: the
\* composed text loses the line break before the line and nothing else, the
\* cursor is at the join, the last buffered line leaves the buffer, and the
\* mode is Normal exactly when the buffer is empty afterwards.
C40_BackspaceJoinsLines ==
  [][(/\ ComposerKeyStep(Key("Backspace", "", {}))
      /\ ~app.panicked
      /\ app.input_mode = "MultiLine"
      /\ app.input_cursor = 0
      /\ app.multiline_buffer # <<>>)
       => LET n == Len(app.multiline_buffer)
              previous_line == app.multiline_buffer[n]
              text == get_input_text(app)
              break == Len(text) - Len(app.input)
          IN  /\ text[break] = NL
              /\ get_input_text(app') =
                   SubSeq(text, 1, break - 1) \o SubSeq(text, break + 1, Len(text))
              /\ app'.input = previous_line \o app.input
              /\ app'.input_cursor = Len(previous_line)
              /\ app'.multiline_buffer = SubSeq(app.multiline_buffer, 1, n - 1)
              /\ app'.input_mode \in {"Normal", "MultiLine"}
              /\ app'.input_mode = "Normal" <=> app'.multiline_buffer = <<>>
              /\ ~app'.panicked]_vars

\* The user pasted two lines, moved to the start of the second and pressed
\* Backspace: the lines are one line, the cursor between them.
C40_Witness ==
  /\ PlainKeyHandled("Backspace")
  /\ term.nkeys = 3
  /\ app.input = <<"a", E_ACUTE>>
  /\ app.input_cursor = 1
  /\ app.input_mode = "Normal"
  /\ app.multiline_buffer = <<>>

=============================================================================
